---- MODULE Spec2Model ----
(***************************************************************************)
(* Model of the analysis pipeline of AnalyseEvalNat2025_NS: per-skill      *)
(* regressions on the IPS (AnalyseService), per-school synthesis,          *)
(* prioritisation matrix (StrategieService), Excel "Matrice" tab           *)
(* (ExportService) and per-subject graphs (GraphiqueService).              *)
(*                                                                         *)
(* JavaScript numbers are modelled as exact rationals [n, d] with the      *)
(* non-finite values NaN (0/0) and +-Infinity (+-1/0); binary rounding of  *)
(* doubles is not modelled.  The r2 field of a regression is not modelled. *)
(* Accented letters and emoji of the labels are left out of the strings.   *)
(***************************************************************************)
EXTENDS Integers, Sequences, FiniteSets, TLC

\* Number of schools of the circonscription in the source tables.
NbEcoles == 5

----------------------------------------------------------------------------
(* JavaScript numbers                                                      *)

Abs(x) == IF x < 0 THEN -x ELSE x

Min(a, b) == IF a <= b THEN a ELSE b

Sgn(x) == IF x < 0 THEN -1 ELSE IF x > 0 THEN 1 ELSE 0

RECURSIVE GCD(_, _)
GCD(a, b) == IF b = 0 THEN a ELSE GCD(b, a % b)

NaN == [n |-> 0, d |-> 0]

Inf(s) == [n |-> s, d |-> 0]

\* The number n/d, with JavaScript's results for a zero divisor.
Rat(n, d) ==
    IF d = 0 THEN Inf(Sgn(n))
    ELSE LET g == GCD(Abs(n), Abs(d))
             s == Sgn(d)
         IN  [n |-> s * (n \div g), d |-> s * (d \div g)]

Num(i) == [n |-> i, d |-> 1]

IsNaN(x) == x.n = 0 /\ x.d = 0

Fini(x) == x.d # 0

\* JavaScript truthiness of a number: neither 0 nor NaN.
Truthy(x) == x.n # 0

RAdd(x, y) ==
    IF Fini(x) /\ Fini(y) THEN Rat(x.n * y.d + y.n * x.d, x.d * y.d)
    ELSE IF IsNaN(x) \/ IsNaN(y) THEN NaN
    ELSE IF Fini(x) THEN y
    ELSE IF Fini(y) THEN x
    ELSE IF x.n = y.n THEN x ELSE NaN

RNeg(x) == [n |-> -x.n, d |-> x.d]

RSub(x, y) == RAdd(x, RNeg(y))

RMul(x, y) ==
    IF Fini(x) /\ Fini(y) THEN Rat(x.n * y.n, x.d * y.d)
    ELSE IF IsNaN(x) \/ IsNaN(y) THEN NaN
    ELSE Inf(Sgn(x.n) * Sgn(y.n))

RDiv(x, y) ==
    IF IsNaN(x) \/ IsNaN(y) THEN NaN
    ELSE IF Fini(x) /\ Fini(y) THEN Rat(x.n * y.d, x.d * y.n)
    ELSE IF Fini(x) THEN Num(0)
    ELSE IF Fini(y) THEN Inf(x.n * (IF y.n < 0 THEN -1 ELSE 1))
    ELSE NaN

\* x > y; false as soon as one side is NaN.
RGt(x, y) ==
    IF IsNaN(x) \/ IsNaN(y) THEN FALSE
    ELSE IF Fini(x) /\ Fini(y) THEN x.n * y.d > y.n * x.d
    ELSE IF Fini(x) THEN y.n < 0
    ELSE IF Fini(y) THEN x.n > 0
    ELSE x.n > y.n

RLt(x, y) == RGt(y, x)

RGe(x, y) == RGt(x, y) \/ (~IsNaN(x) /\ x = y)

\* Math.round(x * 10) / 10
Round1(x) ==
    IF Fini(x) THEN Rat((20 * x.n + x.d) \div (2 * x.d), 10) ELSE x

RECURSIVE SommeSeq(_)
SommeSeq(s) == IF s = <<>> THEN Num(0) ELSE RAdd(Head(s), SommeSeq(Tail(s)))

RECURSIVE Concat(_)
Concat(ss) == IF ss = <<>> THEN <<>> ELSE Head(ss) \o Concat(Tail(ss))

----------------------------------------------------------------------------
(* Text of the cells of the source files                                   *)

\* The character of s at position i (1-based), "" outside the string.
Car(s, i) == IF i >= 1 /\ i <= Len(s) THEN SubSeq(s, i, i) ELSE ""

Majuscules == "ABCDEFGHIJKLMNOPQRSTUVWXYZ"
Minuscules == "abcdefghijklmnopqrstuvwxyz"
Chiffres == "0123456789"

\* The position of character c in the alphabet s (no character twice),
\* 0 when absent.
Position(s, c) ==
    IF \E i \in 1..Len(s) : Car(s, i) = c
    THEN CHOOSE i \in 1..Len(s) : Car(s, i) = c
    ELSE 0

\* String.prototype.toLowerCase, on unaccented letters.
RECURSIVE ToLowerCase(_)
ToLowerCase(s) ==
    IF Len(s) = 0 THEN ""
    ELSE LET c == Car(s, Len(s))
             p == Position(Majuscules, c)
         IN  ToLowerCase(SubSeq(s, 1, Len(s) - 1))
                 \o (IF p = 0 THEN c ELSE Car(Minuscules, p))

\* String.prototype.includes
Includes(s, motif) ==
    \E i \in 1..(Len(s) - Len(motif) + 1) : SubSeq(s, i, i + Len(motif) - 1) = motif

\* String.prototype.trim, on spaces.
RECURSIVE Trim(_)
Trim(s) ==
    IF Len(s) = 0 THEN ""
    ELSE IF Car(s, 1) = " " THEN Trim(SubSeq(s, 2, Len(s)))
    ELSE IF Car(s, Len(s)) = " " THEN Trim(SubSeq(s, 1, Len(s) - 1))
    ELSE s

\* String.prototype.replace(de, par) with a string pattern: the first
\* occurrence only.
Replace(s, de, par) ==
    IF Includes(s, de)
    THEN LET i == CHOOSE k \in 1..Len(s) :
                      /\ SubSeq(s, k, k + Len(de) - 1) = de
                      /\ \A j \in 1..(k - 1) : SubSeq(s, j, j + Len(de) - 1) # de
         IN  SubSeq(s, 1, i - 1) \o par \o SubSeq(s, i + Len(de), Len(s))
    ELSE s

RECURSIVE Puissance10(_)
Puissance10(n) == IF n = 0 THEN 1 ELSE 10 * Puissance10(n - 1)

\* The number of leading decimal digits of s from position i.
RECURSIVE NbChiffres(_, _)
NbChiffres(s, i) ==
    IF Position(Chiffres, Car(s, i)) = 0 THEN 0 ELSE 1 + NbChiffres(s, i + 1)

\* The value of a string of decimal digits.
RECURSIVE Entier(_)
Entier(s) ==
    IF Len(s) = 0 THEN 0
    ELSE 10 * Entier(SubSeq(s, 1, Len(s) - 1)) + Position(Chiffres, Car(s, Len(s))) - 1

\* parseFloat(s): the longest prefix of the form [+-]digits[.digits] after
\* the leading spaces, NaN when it has no digit (exponents are not read).
ParseFloat(s) ==
    LET t == Trim(s)
        signe == IF Car(t, 1) = "-" THEN -1 ELSE 1
        d == IF Car(t, 1) \in {"-", "+"} THEN 2 ELSE 1
        nEnt == NbChiffres(t, d)
        nFrac == IF Car(t, d + nEnt) = "." THEN NbChiffres(t, d + nEnt + 1) ELSE 0
        ent == Entier(SubSeq(t, d, d + nEnt - 1))
        frac == Entier(SubSeq(t, d + nEnt + 1, d + nEnt + nFrac))
    IN  IF nEnt + nFrac = 0 THEN NaN
        ELSE Rat(signe * (ent * Puissance10(nFrac) + frac), Puissance10(nFrac))

\* The order of the characters in a.localeCompare(b) on unaccented text,
\* letters compared without case.
OrdreCollation == " 0123456789abcdefghijklmnopqrstuvwxyz"

\* a.localeCompare(b): -1, 0 or 1 by the first character that differs.
RECURSIVE LocaleCompare(_, _)
LocaleCompare(a, b) ==
    IF Len(a) = 0 THEN (IF Len(b) = 0 THEN 0 ELSE -1)
    ELSE IF Len(b) = 0 THEN 1
    ELSE IF Car(a, 1) = Car(b, 1)
         THEN LocaleCompare(SubSeq(a, 2, Len(a)), SubSeq(b, 2, Len(b)))
    ELSE LET ra == Position(OrdreCollation, ToLowerCase(Car(a, 1)))
             rb == Position(OrdreCollation, ToLowerCase(Car(b, 1)))
         IN  IF ra < rb THEN -1
             ELSE IF ra > rb THEN 1
             ELSE LocaleCompare(SubSeq(a, 2, Len(a)), SubSeq(b, 2, Len(b)))

----------------------------------------------------------------------------
(* Input: the source tables and the IPS of the schools                     *)

\* A skill key `${niveau}_${matiere}_${nom}`; split("_") gives its fields.
Cle(niveau, matiere, nom) == [niveau |-> niveau, matiere |-> matiere, nom |-> nom]

CleFrancais == Cle("CP", "francais", "Lire_des_mots")
CleMathsA == Cle("CP", "maths", "Ecrire_des_nombres")
CleMathsB == Cle("CP", "maths", "Calculer_en_ligne")

\* The skill keys in the order the tables are loaded (francais before maths).
Competences == <<CleFrancais, CleMathsA, CleMathsB>>

ToutesCles == {Competences[i] : i \in 1..Len(Competences)}

Ecoles == 1..NbEcoles

\* Pupil counts of one school for one skill in the source table.
Eff(b, f, s) == [besoins |-> b, fragiles |-> f, satisfaisant |-> s]

TotalEff(eff) == eff.besoins + eff.fragiles + eff.satisfaisant

AucunEleve == Eff(0, 0, 0)

\* The counts a source row may hold for school e and skill c.  School 1
\* carries the edge cases (no pupil, no satisfactory pupil); the rates 43,
\* 57 and 58 put the gaps at 0, 0.5, 7 and 7.5 points and beyond.
EffectifsPossibles(e, c) ==
    LET r43 == Eff(30, 27, 43)
        r57 == Eff(23, 20, 57)
        r58 == Eff(22, 20, 58)
        r0  == Eff(60, 40, 0)
    IN  IF e = 1 THEN
            IF c = CleFrancais THEN {AucunEleve, r0, r43, r57, r58}
            ELSE IF c = CleMathsA THEN {AucunEleve, r43, r57, r58}
            ELSE {AucunEleve, r43, r58}
        ELSE IF e = 2 THEN
            IF c = CleFrancais THEN {r43, r57, r58} ELSE {r43, r58}
        ELSE IF e = 4 /\ c = CleFrancais THEN {r43, r57}
        ELSE IF e = 5 /\ c = CleFrancais THEN {AucunEleve, r57}
        ELSE {r57}

\* "mixte": two IPS values; "uniforme": every school has the same IPS.
RepartitionsIPS == {"mixte", "uniforme"}

\* "alternee": the two IPS values in turn.
IPSDe(repartition, e) ==
    IF repartition = "uniforme" THEN 100
    ELSE IF repartition = "alternee" THEN (IF e % 2 = 1 THEN 90 ELSE 110)
    ELSE IF e <= 2 THEN 90 ELSE 110

\* The percentage of a group: 100 * S / (B + F + S).
PourcentageSource(eff) == Rat(100 * eff.satisfaisant, TotalEff(eff))

\* The percentage cell of a source row, as a sequence of zero or one
\* number: the cell is empty when the group has no pupil.
CelluleSource(eff) ==
    IF TotalEff(eff) = 0 THEN <<>> ELSE <<PourcentageSource(eff)>>

\* parsePourcentage(valeur): <<>> for null.
ParsePourcentage(valeur) ==
    IF valeur = <<>> THEN <<>>
    ELSE IF IsNaN(valeur[1]) THEN <<>>
    ELSE IF RGt(valeur[1], Num(0)) /\ RLt(valeur[1], Num(1))
         THEN <<RMul(valeur[1], Num(100))>>
    ELSE <<valeur[1]>>

\* The same table read without the two null guards: an unparsed cell is
\* recorded as NaN.
ResultatsExtraitsSansGarde(source) ==
    [c \in ToutesCles |->
        IF ParsePourcentage(CelluleSource(source[c])) = <<>> THEN NaN
        ELSE ParsePourcentage(CelluleSource(source[c]))[1]]

\* The results extraireEcoles records for a school: one percentage per
\* skill whose cell parses to a number (the key is not recorded when
\* parsePourcentage gives null).
ResultatsExtraits(source) ==
    [c \in {k \in ToutesCles : ParsePourcentage(CelluleSource(source[k])) # <<>>} |->
        ParsePourcentage(CelluleSource(source[c]))[1]]

\* Object.keys(resultats): the recorded keys in insertion order.
ClesDe(resultats) == SelectSeq(Competences, LAMBDA c : c \in DOMAIN resultats)

\* The name of school e in the source tables.
NomEcole(e) == "Ecole " \o ToString(e)

\* The public schools with an IPS and at least one recorded result.
EcolesAvecIPS(sources, repartition) ==
    LET retenues == SelectSeq([e \in 1..Len(sources) |-> e],
                       LAMBDA e : DOMAIN ResultatsExtraits(sources[e]) # {})
    IN  [i \in 1..Len(retenues) |->
            [uai |-> retenues[i],
             nom |-> NomEcole(retenues[i]),
             ips |-> Num(IPSDe(repartition, retenues[i])),
             secteur |-> "public",
             resultats |-> ResultatsExtraits(sources[retenues[i]])]]

----------------------------------------------------------------------------
(* AnalyseService                                                          *)

\* ss.linearRegression(data) of simple-statistics: least squares over the
\* points <<x, y>>.
LinearRegression(data) ==
    LET n == Len(data)
        sumX == SommeSeq([i \in 1..n |-> data[i][1]])
        sumY == SommeSeq([i \in 1..n |-> data[i][2]])
        sumXX == SommeSeq([i \in 1..n |-> RMul(data[i][1], data[i][1])])
        sumXY == SommeSeq([i \in 1..n |-> RMul(data[i][1], data[i][2])])
        m == RDiv(RSub(RMul(Num(n), sumXY), RMul(sumX, sumY)),
                  RSub(RMul(Num(n), sumXX), RMul(sumX, sumX)))
    IN  IF n = 1 THEN [m |-> Num(0), b |-> data[1][2]]
        ELSE [m |-> m,
              b |-> RSub(RDiv(sumY, Num(n)), RDiv(RMul(m, sumX), Num(n)))]

\* The points collected for one skill: every school with an IPS that has
\* the key, in school order.
PointsCompetence(ecoles, c) ==
    LET avec == SelectSeq(ecoles,
                    LAMBDA e : Truthy(e.ips) /\ c \in DOMAIN e.resultats)
    IN  [i \in 1..Len(avec) |-> <<avec[i].ips, avec[i].resultats[c]>>]

\* ips && resultat && !isNaN(ips) && !isNaN(resultat)
PointValide(p) == Truthy(p[1]) /\ Truthy(p[2]) /\ ~IsNaN(p[1]) /\ ~IsNaN(p[2])

\* Minimum number of valid points for a regression.
MinPoints == 4

AssezDePoints(data) == Len(data) >= MinPoints

\* competencesData after the filter: for every skill some school has, its
\* valid points.
DonneesRegression(ecoles) ==
    [c \in {k \in ToutesCles : PointsCompetence(ecoles, k) # <<>>} |->
        SelectSeq(PointsCompetence(ecoles, c), PointValide)]

\* The regression table after calculateRegressions(ecoles): the entries of
\* the table before the call, overwritten for every skill with enough points.
CalculerRegressions(avant, ecoles) ==
    LET donnees == DonneesRegression(ecoles)
        cles == {c \in DOMAIN donnees : AssezDePoints(donnees[c])}
        entree(c) ==
            LET reg == LinearRegression(donnees[c])
            IN  [a |-> reg.m, b |-> reg.b, n |-> Len(donnees[c])]
    IN  [c \in cles \cup DOMAIN avant |->
            IF c \in cles THEN entree(c) ELSE avant[c]]

\* predictFromIPS: null is modelled by the guard of the caller.
PredictFromIPS(regs, c, ips) == RAdd(RMul(regs[c].a, ips), regs[c].b)

\* categoriserIPS
CategoriserIPS(ips) ==
    IF RLt(ips, Num(80)) THEN "Tres defavorise"
    ELSE IF RLt(ips, Num(90)) THEN "Defavorise"
    ELSE IF RGt(ips, Num(120)) THEN "Tres favorise"
    ELSE IF RGt(ips, Num(110)) THEN "Favorise"
    ELSE "Moyen"

\* ReferencesService.getReference: references[`${niveau}_${matiere}`]?.[competence] || null,
\* as a sequence of zero or one reference.
GetReference(refs, niveau, matiere, competence) ==
    LET key == <<niveau, matiere>>
    IN  IF key \in DOMAIN refs /\ competence \in DOMAIN refs[key]
        THEN <<refs[key][competence]>> ELSE <<>>

\* The references loadAllReferences has loaded: one sheet of the CP
\* francais file; the maths files are stored under "mathematiques".
ReferencesChargees ==
    (<<"CP", "francais">> :> ("Lire_des_mots" :> [france |-> Num(50), academie |-> Num(55)]))
    @@ (<<"CP", "mathematiques">> :> ("Ecrire_des_nombres" :> [france |-> Num(60), academie |-> Num(0)]))

\* Default thresholds of categoriser.
SeuilLevier == 7
SeuilVigilance == -7

\* The same decision with inclusive thresholds.
CategorieCodeSeuilsInclus(ecart) ==
    IF RGe(ecart, Num(SeuilLevier)) THEN "LEVIER"
    ELSE IF RGe(Num(SeuilVigilance), ecart) THEN "VIGILANCE"
    ELSE "CONFORME"

\* The category of a gap (lines 119-130 of categoriser).
CategorieCode(ecart) ==
    IF RGt(ecart, Num(SeuilLevier)) THEN "LEVIER"
    ELSE IF RLt(ecart, Num(SeuilVigilance)) THEN "VIGILANCE"
    ELSE "CONFORME"

MatiereLabel(matiere) ==
    IF matiere = "francais" THEN "Francais"
    ELSE IF matiere = "maths" THEN "Maths"
    ELSE matiere

\* categoriser with the category taken from the gap to the national
\* reference when the skill has one.
CategoriserSelonReference(regs, refs, ecole, c) ==
    IF c \notin DOMAIN ecole.resultats \/ ~Truthy(ecole.ips) THEN <<>>
    ELSE IF c \notin DOMAIN regs THEN <<>>
    ELSE
      LET resultatReel == ecole.resultats[c]
          attendu == PredictFromIPS(regs, c, ecole.ips)
          ecart == RSub(resultatReel, attendu)
          ref == GetReference(refs, c.niveau, c.matiere, c.nom)
          aFrance == ref # <<>> /\ Truthy(ref[1].france)
          aAcademie == ref # <<>> /\ Truthy(ref[1].academie)
      IN  IF ~Truthy(attendu) THEN <<>>
          ELSE <<[ecole |-> ecole.nom,
                  uai |-> ecole.uai,
                  ips |-> Round1(ecole.ips),
                  categorie_ips |-> CategoriserIPS(ecole.ips),
                  secteur |-> ecole.secteur,
                  niveau |-> c.niveau,
                  matiere |-> MatiereLabel(c.matiere),
                  competence |-> c.nom,
                  competence_complete |-> c,
                  resultat_reel |-> Round1(resultatReel),
                  resultat_attendu_ips |-> Round1(attendu),
                  ecart_vs_ips |-> Round1(ecart),
                  categorie_code |->
                      IF aFrance THEN CategorieCode(RSub(resultatReel, ref[1].france))
                      ELSE CategorieCode(ecart),
                  ref_france |-> IF aFrance THEN <<Round1(ref[1].france)>> ELSE <<>>,
                  ref_academie |-> IF aAcademie THEN <<Round1(ref[1].academie)>> ELSE <<>>,
                  ecart_vs_france |->
                      IF aFrance THEN <<Round1(RSub(resultatReel, ref[1].france))>> ELSE <<>>,
                  ecart_vs_academie |->
                      IF aAcademie THEN <<Round1(RSub(resultatReel, ref[1].academie))>>
                      ELSE <<>>]>>

\* categoriser(ecole, competence): <<>> for null, else <<the analysis>>.
Categoriser(regs, refs, ecole, c) ==
    IF c \notin DOMAIN ecole.resultats \/ ~Truthy(ecole.ips) THEN <<>>
    ELSE IF c \notin DOMAIN regs THEN <<>>
    ELSE
      LET resultatReel == ecole.resultats[c]
          attendu == PredictFromIPS(regs, c, ecole.ips)
          ecart == RSub(resultatReel, attendu)
          ref == GetReference(refs, c.niveau, c.matiere, c.nom)
          aFrance == ref # <<>> /\ Truthy(ref[1].france)
          aAcademie == ref # <<>> /\ Truthy(ref[1].academie)
      IN  IF ~Truthy(attendu) THEN <<>>
          ELSE <<[ecole |-> ecole.nom,
                  uai |-> ecole.uai,
                  ips |-> Round1(ecole.ips),
                  categorie_ips |-> CategoriserIPS(ecole.ips),
                  secteur |-> ecole.secteur,
                  niveau |-> c.niveau,
                  matiere |-> MatiereLabel(c.matiere),
                  competence |-> c.nom,
                  competence_complete |-> c,
                  resultat_reel |-> Round1(resultatReel),
                  resultat_attendu_ips |-> Round1(attendu),
                  ecart_vs_ips |-> Round1(ecart),
                  categorie_code |-> CategorieCode(ecart),
                  ref_france |-> IF aFrance THEN <<Round1(ref[1].france)>> ELSE <<>>,
                  ref_academie |-> IF aAcademie THEN <<Round1(ref[1].academie)>> ELSE <<>>,
                  ecart_vs_france |->
                      IF aFrance THEN <<Round1(RSub(resultatReel, ref[1].france))>> ELSE <<>>,
                  ecart_vs_academie |->
                      IF aAcademie THEN <<Round1(RSub(resultatReel, ref[1].academie))>>
                      ELSE <<>>]>>

\* analyserTout: the analyses of every school, in school order, for every
\* recorded key of the school, in key order.
AnalyserTout(regs, refs, ecoles) ==
    Concat([i \in 1..Len(ecoles) |->
        Concat([j \in 1..Len(ClesDe(ecoles[i].resultats)) |->
            Categoriser(regs, refs, ecoles[i], ClesDe(ecoles[i].resultats)[j])])])

\* The uai of a list of analyses, in order of first appearance.
RECURSIVE UaisDe(_)
UaisDe(as) ==
    IF as = <<>> THEN <<>>
    ELSE LET avant == UaisDe(SubSeq(as, 1, Len(as) - 1))
             u == as[Len(as)].uai
         IN  IF \E i \in 1..Len(avant) : avant[i] = u THEN avant
             ELSE Append(avant, u)

\* The comparator of the final sort of genererSyntheseParEcole is negative:
\* more skills in vigilance first, then more levers.
PrecedeSynthese(a, b) ==
    \/ a.nb_vigilance > b.nb_vigilance
    \/ /\ a.nb_vigilance = b.nb_vigilance
       /\ a.nb_leviers > b.nb_leviers

\* Array.prototype.sort with that comparator: a stable sort.
RECURSIVE TriSynthese(_)
TriSynthese(s) ==
    IF s = <<>> THEN <<>>
    ELSE LET tri == TriSynthese(SubSeq(s, 1, Len(s) - 1))
             x == s[Len(s)]
             \* x goes after every element it does not strictly precede
             k == Cardinality({i \in 1..Len(tri) :
                      \A j \in 1..i : ~PrecedeSynthese(x, tri[j])})
         IN  SubSeq(tri, 1, k) \o <<x>> \o SubSeq(tri, k + 1, Len(tri))

\* The same decision with the shares compared to 30 instead of 0.3.
ProfilGlobalEnPourcent(nbLeviers, nbVigilance, nbTotal) ==
    LET tauxVigilance == IF nbTotal > 0 THEN Rat(nbVigilance, nbTotal) ELSE Num(0)
        tauxLeviers == IF nbTotal > 0 THEN Rat(nbLeviers, nbTotal) ELSE Num(0)
    IN  IF RGe(tauxVigilance, Num(30)) THEN "ACCOMPAGNEMENT PRIORITAIRE"
        ELSE IF RGe(tauxLeviers, Num(30)) THEN "ECOLE LEVIER"
        ELSE IF nbVigilance >= 5 THEN "VIGILANCE MODEREE"
        ELSE "SUIVI STANDARD"

\* The global profile of genererSyntheseParEcole (lines 227-242).
ProfilGlobal(nbLeviers, nbVigilance, nbTotal) ==
    LET tauxVigilance == IF nbTotal > 0 THEN Rat(nbVigilance, nbTotal) ELSE Num(0)
        tauxLeviers == IF nbTotal > 0 THEN Rat(nbLeviers, nbTotal) ELSE Num(0)
    IN  IF RGe(tauxVigilance, Rat(3, 10)) THEN "ACCOMPAGNEMENT PRIORITAIRE"
        ELSE IF RGe(tauxLeviers, Rat(3, 10)) THEN "ECOLE LEVIER"
        ELSE IF nbVigilance >= 5 THEN "VIGILANCE MODEREE"
        ELSE "SUIVI STANDARD"

\* genererSyntheseParEcole(analyses)
GenererSyntheseParEcole(as) ==
    LET uais == UaisDe(as)
        de(u) == SelectSeq(as, LAMBDA a : a.uai = u)
        nb(u, code) == Len(SelectSeq(de(u), LAMBDA a : a.categorie_code = code))
        ligne(u) ==
            LET nbL == nb(u, "LEVIER")
                nbV == nb(u, "VIGILANCE")
                nbT == Len(de(u))
            IN  [ecole |-> de(u)[1].ecole,
                 uai |-> u,
                 ips |-> de(u)[1].ips,
                 categorie_ips |-> de(u)[1].categorie_ips,
                 secteur |-> de(u)[1].secteur,
                 nb_leviers |-> nbL,
                 nb_vigilance |-> nbV,
                 nb_conformes |-> nbT - nbL - nbV,
                 nb_total |-> nbT,
                 taux_leviers |-> Round1(RMul(Rat(nbL, nbT), Num(100))),
                 taux_vigilance |-> Round1(RMul(Rat(nbV, nbT), Num(100))),
                 profil_global |-> ProfilGlobal(nbL, nbV, nbT)]
    IN  TriSynthese([i \in 1..Len(uais) |-> ligne(uais[i])])

----------------------------------------------------------------------------
(* utils/categorisation                                                    *)

\* Default share (in %) of determinerProfilMatiere.
SeuilProfil == 30

\* determinerProfilMatiere with no letter ("N") for a subject without any
\* classified skill.
DeterminerProfilMatiereNul(stats) ==
    LET total == stats.leviers + stats.conformes + stats.vigilance
        tauxLeviers == RMul(Rat(stats.leviers, total), Num(100))
        tauxVigilance == RMul(Rat(stats.vigilance, total), Num(100))
    IN  IF total = 0 THEN "N"
        ELSE IF RGe(tauxLeviers, Num(SeuilProfil)) THEN "L"
        ELSE IF RGe(tauxVigilance, Num(SeuilProfil)) THEN "V"
        ELSE "C"

\* determinerProfilMatiere(stats)
DeterminerProfilMatiere(stats) ==
    LET total == stats.leviers + stats.conformes + stats.vigilance
        tauxLeviers == RMul(Rat(stats.leviers, total), Num(100))
        tauxVigilance == RMul(Rat(stats.vigilance, total), Num(100))
    IN  IF total = 0 THEN "C"
        ELSE IF RGe(tauxLeviers, Num(SeuilProfil)) THEN "L"
        ELSE IF RGe(tauxVigilance, Num(SeuilProfil)) THEN "V"
        ELSE "C"

\* `${profilMaths},${profilFrancais}`
CleProfil(profilMaths, profilFrancais) == profilMaths \o "," \o profilFrancais

\* The table with the two "suivi renforce" cells at 2.
PrioritesSuiviRenforceA2 ==
    ("V,V" :> 0) @@ ("V,C" :> 1) @@ ("C,V" :> 1) @@ ("V,L" :> 2) @@ ("L,V" :> 2)
    @@ ("C,C" :> 3) @@ ("C,L" :> 2) @@ ("L,C" :> 2) @@ ("L,L" :> 5)

\* The table of calculerPriorite.
Priorites ==
    ("V,V" :> 0) @@ ("V,C" :> 1) @@ ("C,V" :> 1) @@ ("V,L" :> 2) @@ ("L,V" :> 2)
    @@ ("C,C" :> 3) @@ ("C,L" :> 4) @@ ("L,C" :> 4) @@ ("L,L" :> 5)

\* calculerPriorite(profilMaths, profilFrancais)
CalculerPriorite(profilMaths, profilFrancais) ==
    LET profil == CleProfil(profilMaths, profilFrancais)
    IN  IF profil \in DOMAIN Priorites THEN Priorites[profil] ELSE 3

\* getDescriptionProfil("(" + cle + ")")
GetDescriptionProfil(cle) ==
    LET descriptions ==
            ("V,V" :> "ACCOMPAGNEMENT GLOBAL URGENT")
            @@ ("V,C" :> "ACCOMP. MATHS + SUIVI FRANCAIS")
            @@ ("C,V" :> "ACCOMP. FRANCAIS + SUIVI MATHS")
            @@ ("V,L" :> "ACCOMP. MATHS + VALORISER FRANCAIS")
            @@ ("L,V" :> "ACCOMP. FRANCAIS + VALORISER MATHS")
            @@ ("C,C" :> "SUIVI STANDARD")
            @@ ("C,L" :> "SUIVI RENFORCE + OBSERVATION")
            @@ ("L,C" :> "SUIVI RENFORCE + OBSERVATION")
            @@ ("L,L" :> "EXCELLENCE A VALORISER")
    IN  IF cle \in DOMAIN descriptions THEN descriptions[cle]
        ELSE "PROFIL INDETERMINE"

----------------------------------------------------------------------------
(* StrategieService.genererMatricePriorisation                             *)

\* The counters of one school for one subject ("francais" when the label
\* of the analysis is Francais, "maths" otherwise).
StatsMatiere(as, u, francais) ==
    LET de == SelectSeq(as, LAMBDA a : a.uai = u /\ ((a.matiere = "Francais") = francais))
        nb(code) == Len(SelectSeq(de, LAMBDA a : a.categorie_code = code))
    IN  [leviers |-> nb("LEVIER"),
         conformes |-> Len(de) - nb("LEVIER") - nb("VIGILANCE"),
         vigilance |-> nb("VIGILANCE")]

\* ecolesClassees: one entry per school of the analyses, in order of first
\* appearance.
EcolesClassees(as) ==
    LET uais == UaisDe(as)
        classe(u) ==
            LET premiere == SelectSeq(as, LAMBDA a : a.uai = u)[1]
                maths == StatsMatiere(as, u, FALSE)
                francais == StatsMatiere(as, u, TRUE)
                profilMaths == DeterminerProfilMatiere(maths)
                profilFrancais == DeterminerProfilMatiere(francais)
            IN  [uai |-> u,
                 ecole |-> premiere.ecole,
                 ips |-> premiere.ips,
                 categorie_ips |-> premiere.categorie_ips,
                 secteur |-> premiere.secteur,
                 maths |-> maths,
                 francais |-> francais,
                 profil_maths |-> profilMaths,
                 profil_francais |-> profilFrancais,
                 profil_croise |-> "(" \o CleProfil(profilMaths, profilFrancais) \o ")",
                 priorite |-> CalculerPriorite(profilMaths, profilFrancais)]
    IN  [i \in 1..Len(uais) |-> classe(uais[i])]

\* The nine cells of the matrix, in the order of the object literal.
ClesMatrice == <<"V,V", "V,C", "V,L", "C,V", "C,C", "C,L", "L,V", "L,C", "L,L">>

\* matrice with the cells keyed by the francais profile first.
MatriceCleInversee(classees) ==
    [cle \in {ClesMatrice[i] : i \in 1..Len(ClesMatrice)} |->
        SelectSeq(classees,
            LAMBDA e : CleProfil(e.profil_francais, e.profil_maths) = cle)]

\* matrice: for each cell the classified schools whose key it is.
Matrice(classees) ==
    [cle \in {ClesMatrice[i] : i \in 1..Len(ClesMatrice)} |->
        SelectSeq(classees,
            LAMBDA e : CleProfil(e.profil_maths, e.profil_francais) = cle)]

\* The nine calls with the priorities of (C,V) and (V,L) exchanged.
CellulesAfficheesDecalees ==
    <<<<"V,V", 0>>, <<"V,C", 1>>, <<"C,V", 2>>, <<"V,L", 1>>, <<"L,V", 2>>,
      <<"C,C", 3>>, <<"C,L", 4>>, <<"L,C", 4>>, <<"L,L", 5>>>>

\* The nine calls of afficherCellule(cle, priorite), in order.
CellulesAffichees ==
    <<<<"V,V", 0>>, <<"V,C", 1>>, <<"C,V", 1>>, <<"V,L", 2>>, <<"L,V", 2>>,
      <<"C,C", 3>>, <<"C,L", 4>>, <<"L,C", 4>>, <<"L,L", 5>>>>

\* What afficherCellule prints for the nine cells.
AfficherCellules(matrice) ==
    [i \in 1..Len(CellulesAffichees) |->
        [cle |-> CellulesAffichees[i][1],
         description |-> GetDescriptionProfil(CellulesAffichees[i][1]),
         nb |-> Len(matrice[CellulesAffichees[i][1]]),
         priorite |-> "P" \o ToString(CellulesAffichees[i][2])]]

----------------------------------------------------------------------------
(* StrategieService.genererPortefeuilleLeviers                             *)

\* The number of schools kept by slice(0, 10).
TaillePortefeuille == 10

\* sort((a, b) => parseFloat(b.taux_leviers) - parseFloat(a.taux_leviers)):
\* a stable sort, larger shares first.
RECURSIVE TriLeviers(_)
TriLeviers(s) ==
    IF s = <<>> THEN <<>>
    ELSE LET tri == TriLeviers(SubSeq(s, 1, Len(s) - 1))
             x == s[Len(s)]
             k == Cardinality({i \in 1..Len(tri) :
                      \A j \in 1..i : ~RGt(x.taux_leviers, tri[j].taux_leviers)})
         IN  SubSeq(tri, 1, k) \o <<x>> \o SubSeq(tri, k + 1, Len(tri))

\* genererPortefeuilleLeviers(): taux_leviers is the share printed with one
\* decimal, which parseFloat reads back.
GenererPortefeuilleLeviers(synthese) ==
    LET tri == TriLeviers(SelectSeq(synthese,
                   LAMBDA e : RGe(e.taux_leviers, Num(30))))
    IN  SubSeq(tri, 1, Min(Len(tri), TaillePortefeuille))

----------------------------------------------------------------------------
(* ExportService.creerOngletMatrice                                        *)

OrdreProfiles ==
    <<[cle |-> "V,V", desc |-> "ACCOMPAGNEMENT GLOBAL URGENT", prio |-> "P0"],
      [cle |-> "V,C", desc |-> "ACCOMP. MATHS + SUIVI FR", prio |-> "P1"],
      [cle |-> "C,V", desc |-> "ACCOMP. FRANCAIS + SUIVI MATHS", prio |-> "P1"],
      [cle |-> "V,L", desc |-> "ACCOMP. MATHS + VALORISER FR", prio |-> "P2"],
      [cle |-> "L,V", desc |-> "ACCOMP. FRANCAIS + VALORISER MATHS", prio |-> "P2"],
      [cle |-> "C,C", desc |-> "SUIVI STANDARD", prio |-> "P3"],
      [cle |-> "C,L", desc |-> "SUIVI RENFORCE", prio |-> "P4"],
      [cle |-> "L,C", desc |-> "SUIVI RENFORCE", prio |-> "P4"],
      [cle |-> "L,L", desc |-> "EXCELLENCE A VALORISER", prio |-> "P5"]>>

\* The data rows of the Matrice tab.
CreerOngletMatrice(matrice) ==
    [i \in 1..Len(OrdreProfiles) |->
        [cle |-> OrdreProfiles[i].cle,
         desc |-> OrdreProfiles[i].desc,
         nb |-> Len(matrice[OrdreProfiles[i].cle]),
         prio |-> OrdreProfiles[i].prio,
         ecoles |-> [j \in 1..Len(matrice[OrdreProfiles[i].cle]) |->
                        matrice[OrdreProfiles[i].cle][j].ecole]]]

----------------------------------------------------------------------------
(* GraphiqueService                                                        *)

\* a.effectifs of an analysis: the field when the analysis has one.
EffectifsAnalyse(a) ==
    IF "effectifs" \in DOMAIN a THEN a.effectifs ELSE AucunEleve

\* aggregerDonneesParEcole(analysesMatiere, ecolesWithIPS)
AggregerDonneesParEcole(asMatiere, ecoles) ==
    LET connues == SelectSeq(asMatiere,
                       LAMBDA a : \E i \in 1..Len(ecoles) : ecoles[i].uai = a.uai)
        uais == UaisDe(connues)
        agrege(u) ==
            LET de == SelectSeq(asMatiere, LAMBDA a : a.uai = u)
                cumul(champ) ==
                    SommeSeq([i \in 1..Len(de) |-> Num(EffectifsAnalyse(de[i])[champ])]).n
                besoins == cumul("besoins")
                fragiles == cumul("fragiles")
                satisfaisant == cumul("satisfaisant")
                total == besoins + fragiles + satisfaisant
            IN  [uai |-> u,
                 nom |-> de[1].ecole,
                 ips |-> de[1].ips,
                 pct_satisfaisant_moyen |->
                     IF total > 0 THEN RMul(Rat(satisfaisant, total), Num(100))
                     ELSE Num(0),
                 effectifs_total |-> Eff(besoins, fragiles, satisfaisant),
                 nb_eleves_total |-> total]
    IN  [i \in 1..Len(uais) |-> agrege(uais[i])]

\* The per-school profile of a graph (lines 140-157).
ProfilGraphique(regression, e) ==
    LET attendu == RAdd(RMul(regression.m, e.ips), regression.b)
        ecart == RSub(e.pct_satisfaisant_moyen, attendu)
    IN  [uai |-> e.uai,
         nom |-> e.nom,
         ips |-> e.ips,
         pct_satisfaisant_moyen |-> e.pct_satisfaisant_moyen,
         effectifs_total |-> e.effectifs_total,
         nb_eleves_total |-> e.nb_eleves_total,
         profil |-> IF RGt(ecart, Num(7)) THEN "LEVIER"
                    ELSE IF RLt(ecart, Num(-7)) THEN "VIGILANCE"
                    ELSE "CONFORME",
         ecart_regression |-> ecart]

\* sort((a, b) => a.nom.localeCompare(b.nom))
RECURSIVE TriParNom(_)
TriParNom(s) ==
    IF s = <<>> THEN <<>>
    ELSE LET tri == TriParNom(SubSeq(s, 1, Len(s) - 1))
             x == s[Len(s)]
             k == Cardinality({i \in 1..Len(tri) : \A j \in 1..i : LocaleCompare(tri[j].nom, x.nom) <= 0})
         IN  SubSeq(tri, 1, k) \o <<x>> \o SubSeq(tri, k + 1, Len(tri))

\* The same graph with, as expected rate of a school, the mean of the
\* expected rates of its analyses of the subject instead of the fitted line.
GenererGraphiqueMoyenneAttendus(matiere, as, ecoles) ==
    LET asMatiere == SelectSeq(as, LAMBDA a : a.matiere = matiere)
        brut == AggregerDonneesParEcole(asMatiere, ecoles)
        points == [i \in 1..Len(brut) |-> <<brut[i].ips, brut[i].pct_satisfaisant_moyen>>]
        regression == LinearRegression(points)
        moyenne(u) ==
            LET de == SelectSeq(asMatiere, LAMBDA a : a.uai = u)
            IN  RDiv(SommeSeq([i \in 1..Len(de) |-> de[i].resultat_attendu_ips]),
                     Num(Len(de)))
        profil(e) ==
            LET ecart == RSub(e.pct_satisfaisant_moyen, moyenne(e.uai))
            IN  [uai |-> e.uai,
                 nom |-> e.nom,
                 ips |-> e.ips,
                 pct_satisfaisant_moyen |-> e.pct_satisfaisant_moyen,
                 effectifs_total |-> e.effectifs_total,
                 nb_eleves_total |-> e.nb_eleves_total,
                 profil |-> IF RGt(ecart, Num(7)) THEN "LEVIER"
                            ELSE IF RLt(ecart, Num(-7)) THEN "VIGILANCE"
                            ELSE "CONFORME",
                 ecart_regression |-> ecart]
    IN  IF asMatiere = <<>> THEN
            [statut |-> "rejete", raison |-> "aucune analyse",
             regression |-> <<>>, donnees |-> <<>>]
        ELSE IF Len(brut) < 4 THEN
            [statut |-> "rejete", raison |-> "donnees insuffisantes",
             regression |-> <<>>, donnees |-> <<>>]
        ELSE
            [statut |-> "genere", raison |-> "",
             regression |-> <<regression>>,
             donnees |-> TriParNom([i \in 1..Len(brut) |-> profil(brut[i])])]

\* genererGraphiqueDiscipline(matiere, analyses, ecolesWithIPS): the data
\* of the graph, or a rejection.
GenererGraphiqueDiscipline(matiere, as, ecoles) ==
    LET asMatiere == SelectSeq(as, LAMBDA a : a.matiere = matiere)
        brut == AggregerDonneesParEcole(asMatiere, ecoles)
        points == [i \in 1..Len(brut) |-> <<brut[i].ips, brut[i].pct_satisfaisant_moyen>>]
        regression == LinearRegression(points)
    IN  IF asMatiere = <<>> THEN
            [statut |-> "rejete", raison |-> "aucune analyse",
             regression |-> <<>>, donnees |-> <<>>]
        ELSE IF Len(brut) < 4 THEN
            [statut |-> "rejete", raison |-> "donnees insuffisantes",
             regression |-> <<>>, donnees |-> <<>>]
        ELSE
            [statut |-> "genere", raison |-> "",
             regression |-> <<regression>>,
             donnees |-> TriParNom([i \in 1..Len(brut) |->
                             ProfilGraphique(regression, brut[i])])]

----------------------------------------------------------------------------
(* OraceService: reading one source file                                   *)

\* lignes[i] with the index of the code (0-based).
Ligne(lignes, i) == lignes[i + 1]

\* ligne[col] || "" with the index of the code (0-based).
Cellule(ligne, col) == IF col >= 0 /\ col < Len(ligne) THEN ligne[col + 1] ELSE ""

\* ligne.some(cellule => cellule && test(cellule.toLowerCase()))
ContientMotif(ligne, motifs) ==
    \E k \in 1..Len(ligne) :
        ligne[k] # "" /\ \E m \in motifs : Includes(ToLowerCase(ligne[k]), m)

\* The smallest element of a set of integers as <<i>>, <<>> for null.
Premier(S) == IF S = {} THEN <<>> ELSE <<CHOOSE i \in S : \A j \in S : i <= j>>

\* The markers of the value-kind row ("repondants" stands for the accented
\* word of the files).
MarqueursPourcentage == {"%", "repondants"}

\* validerIdentification(ligne1, niveau, matiere); lignes[0] is undefined
\* for a file without any row.
ValiderIdentification(lignes, niveau, matiere) ==
    LET matiereCode == IF matiere = "francais" THEN "fr" ELSE "ma"
        patternAttendu == "evaluation " \o ToLowerCase(niveau) \o matiereCode
    IN  /\ Len(lignes) > 0
        /\ Len(Ligne(lignes, 0)) # 0
        /\ ContientMotif(Ligne(lignes, 0), {patternAttendu})

\* trouverLigneGroupes scanning every row from the third.
TrouverLigneGroupesSansFenetre(lignes) ==
    Premier({i \in 2..(Len(lignes) - 1) :
                ContientMotif(Ligne(lignes, i), {"satisfaisant"})})

\* trouverLigneGroupes(lignes)
TrouverLigneGroupes(lignes) ==
    Premier({i \in 2..(Min(10, Len(lignes)) - 1) :
                ContientMotif(Ligne(lignes, i), {"satisfaisant"})})

\* trouverLignePourcentages scanning four rows below the group-label row.
TrouverLignePourcentagesQuatre(lignes, ligneGroupes) ==
    Premier({i \in (ligneGroupes + 1)..(Min(ligneGroupes + 5, Len(lignes)) - 1) :
                ContientMotif(Ligne(lignes, i), MarqueursPourcentage)})

\* trouverLignePourcentages(lignes, ligneGroupes)
TrouverLignePourcentages(lignes, ligneGroupes) ==
    Premier({i \in (ligneGroupes + 1)..(Min(ligneGroupes + 4, Len(lignes)) - 1) :
                ContientMotif(Ligne(lignes, i), MarqueursPourcentage)})

\* trouverPremiereEcole(lignes, lignePourcentages)
TrouverPremiereEcole(lignes, lignePourcentages) ==
    LET estEcole(i) ==
            LET uai == Trim(Cellule(Ligne(lignes, i), 0))
                nom == Trim(Cellule(Ligne(lignes, i), 1))
            IN  /\ uai # ""
                /\ nom # ""
                /\ ~Includes(ToLowerCase(uai), "uai")
                /\ ~Includes(ToLowerCase(uai), "total")
                /\ Len(uai) >= 7
        premiere == Premier({i \in (lignePourcentages + 1)..(Len(lignes) - 1) : estEcole(i)})
    IN  IF premiere = <<>> THEN 10 ELSE premiere[1]

\* finaliserCompetence looking for the marker up to three columns to the
\* right of the group column, beyond the end of the block too.
FinaliserCompetenceHorsBloc(nomCompetence, colDebut, colFin, ligneGroupes, lignePourcentages) ==
    LET groupe == Premier({col \in colDebut..colFin :
                     Includes(Trim(ToLowerCase(Cellule(ligneGroupes, col))),
                              "satisfaisant")})
        pourcentage ==
            Premier({col \in groupe[1]..(groupe[1] + 3) :
                \E m \in MarqueursPourcentage :
                    Includes(Trim(ToLowerCase(Cellule(lignePourcentages, col))), m)})
    IN  IF groupe = <<>> THEN <<>>
        ELSE IF pourcentage # <<>>
             THEN <<[nom |-> nomCompetence, colonne |-> pourcentage[1]]>>
        ELSE <<[nom |-> nomCompetence, colonne |-> groupe[1] + 1]>>

\* finaliserCompetence: the skill with its data column, as a sequence of
\* zero or one entry pushed on competences.
FinaliserCompetence(nomCompetence, colDebut, colFin, ligneGroupes, lignePourcentages) ==
    LET groupe == Premier({col \in colDebut..colFin :
                     Includes(Trim(ToLowerCase(Cellule(ligneGroupes, col))),
                              "satisfaisant")})
        pourcentage ==
            Premier({col \in groupe[1]..Min(groupe[1] + 3, colFin) :
                \E m \in MarqueursPourcentage :
                    Includes(Trim(ToLowerCase(Cellule(lignePourcentages, col))), m)})
    IN  IF groupe = <<>> THEN <<>>
        ELSE IF pourcentage # <<>>
             THEN <<[nom |-> nomCompetence, colonne |-> pourcentage[1]]>>
        ELSE <<[nom |-> nomCompetence, colonne |-> groupe[1] + 1]>>

\* estCompetence of extraireCompetences ("competence" stands for the
\* accented word).
EstCompetence(cellule) ==
    LET texte == Trim(cellule)
    IN  /\ Len(texte) >= 10
        /\ ~Includes(ToLowerCase(texte), "competence")
        /\ ~Includes(ToLowerCase(texte), "exercice")

\* extraireCompetences(ligne3, ligneGroupes, lignePourcentages)
ExtraireCompetences(ligne3, ligneGroupes, lignePourcentages) ==
    LET debuts == SelectSeq([k \in 1..Len(ligne3) |-> k - 1],
                      LAMBDA col : EstCompetence(Cellule(ligne3, col)))
        fin(k) == IF k < Len(debuts) THEN debuts[k + 1] - 1 ELSE Len(ligne3) - 1
    IN  Concat([k \in 1..Len(debuts) |->
            FinaliserCompetence(Trim(Cellule(ligne3, debuts[k])), debuts[k], fin(k),
                                ligneGroupes, lignePourcentages)])

\* One character of normaliserNomCompetence on unaccented text: a run of
\* spaces becomes one "_", brackets and apostrophes are removed.
NormaliserCar(s, i) ==
    IF Car(s, i) = " " THEN (IF Car(s, i - 1) = " " THEN "" ELSE "_")
    ELSE IF Car(s, i) \in {"(", ")", "'"} THEN ""
    ELSE Car(s, i)

RECURSIVE NormaliserJusqua(_, _)
NormaliserJusqua(s, i) ==
    IF i = 0 THEN "" ELSE NormaliserJusqua(s, i - 1) \o NormaliserCar(s, i)

\* normaliserNomCompetence(nom)
NormaliserNomCompetence(nom) ==
    LET n == NormaliserJusqua(Trim(nom), Len(Trim(nom)))
    IN  SubSeq(n, 1, Min(100, Len(n)))

\* The text part of parsePourcentage: <<>> for an empty cell, else the
\* number parseFloat reads after removing "%" and the decimal comma.
ValeurNum(valeur) ==
    IF valeur = "" THEN <<>>
    ELSE <<ParseFloat(Replace(Replace(Trim(valeur), "%", ""), ",", "."))>>

\* The results extraireEcoles records for one row: for each key the cell
\* of the last skill of that name whose cell parses.
ResultatsLigne(ligne, competences, niveau, matiere) ==
    LET pct(k) == ParsePourcentage(ValeurNum(Cellule(ligne, competences[k].colonne)))
        cle(k) == Cle(niveau, matiere, NormaliserNomCompetence(competences[k].nom))
        lus == {k \in 1..Len(competences) : pct(k) # <<>>}
        dernier(c) == CHOOSE k \in lus : cle(k) = c /\ \A j \in lus : cle(j) = c => j <= k
    IN  [c \in {cle(k) : k \in lus} |-> pct(dernier(c))[1]]

\* extraireEcoles(lignesEcoles, competences, niveau, matiere)
ExtraireEcoles(lignesEcoles, competences, niveau, matiere) ==
    LET uai(l) == Trim(Cellule(l, 0))
        gardee(l) ==
            /\ uai(l) # ""
            /\ ~Includes(ToLowerCase(uai(l)), "total")
            /\ DOMAIN ResultatsLigne(l, competences, niveau, matiere) # {}
        lignes == SelectSeq(lignesEcoles, gardee)
    IN  [i \in 1..Len(lignes) |->
            [uai |-> uai(lignes[i]),
             nom |-> Trim(Cellule(lignes[i], 1)),
             resultats |-> ResultatsLigne(lignes[i], competences, niveau, matiere)]]

\* chargerFichierCSV once the skills are known: an empty list without any
\* skill, else the schools of the rows from the first school row.
ExtraireApresCompetences(lignes, niveau, matiere, lignePourcentages, competences) ==
    IF competences = <<>> THEN <<>>
    ELSE ExtraireEcoles(
             SubSeq(lignes, TrouverPremiereEcole(lignes, lignePourcentages) + 1,
                    Len(lignes)),
             competences, niveau, matiere)

\* chargerFichierCSV once the value-kind row was looked for.
ExtraireApresPourcentages(lignes, niveau, matiere, ligneGroupes, lignePourcentages) ==
    IF lignePourcentages = <<>> THEN <<>>
    ELSE ExtraireApresCompetences(lignes, niveau, matiere, lignePourcentages[1],
             ExtraireCompetences(Ligne(lignes, 2), Ligne(lignes, ligneGroupes),
                                 Ligne(lignes, lignePourcentages[1])))

\* chargerFichierCSV once the group-label row was looked for.
ExtraireApresGroupes(lignes, niveau, matiere, ligneGroupes) ==
    IF ligneGroupes = <<>> THEN <<>>
    ELSE ExtraireApresPourcentages(lignes, niveau, matiere, ligneGroupes[1],
             TrouverLignePourcentages(lignes, ligneGroupes[1]))

\* The body of the try block of chargerFichierCSV for a file that was
\* read and parsed.
ExtraireFichier(lignes, niveau, matiere) ==
    IF ~ValiderIdentification(lignes, niveau, matiere) THEN <<>>
    ELSE ExtraireApresGroupes(lignes, niveau, matiere, TrouverLigneGroupes(lignes))

\* chargerFichierCSV without its try block: the error of readFileSync or
\* parse reaches the caller.
ChargerFichierCSVSansTry(fichiers, nomFichier, niveau, matiere) ==
    IF nomFichier \notin DOMAIN fichiers THEN [leve |-> FALSE, ecoles |-> <<>>]
    ELSE IF ~fichiers[nomFichier].lisible THEN [leve |-> TRUE, ecoles |-> <<>>]
    ELSE [leve |-> FALSE,
          ecoles |-> ExtraireFichier(fichiers[nomFichier].lignes, niveau, matiere)]

\* chargerFichierCSV(nomFichier, niveau, matiere): the list returned, and
\* whether an error leaves the function. fichiers holds the files of
\* data/orace/csv; a file that readFileSync or parse rejects is not lisible.
ChargerFichierCSV(fichiers, nomFichier, niveau, matiere) ==
    IF nomFichier \notin DOMAIN fichiers THEN [leve |-> FALSE, ecoles |-> <<>>]
    ELSE IF ~fichiers[nomFichier].lisible THEN [leve |-> FALSE, ecoles |-> <<>>]
    ELSE [leve |-> FALSE,
          ecoles |-> ExtraireFichier(fichiers[nomFichier].lignes, niveau, matiere)]

\* configs of loadEcoles; prefix is already upper-cased.
Configs ==
    <<[niveau |-> "CP", matiere |-> "francais", prefix |-> "CPFR"],
      [niveau |-> "CP", matiere |-> "maths", prefix |-> "CPMA"],
      [niveau |-> "CE1", matiere |-> "francais", prefix |-> "CE1FR"],
      [niveau |-> "CE1", matiere |-> "maths", prefix |-> "CE1MA"],
      [niveau |-> "CE2", matiere |-> "francais", prefix |-> "CE2FR"],
      [niveau |-> "CE2", matiere |-> "maths", prefix |-> "CE2MA"],
      [niveau |-> "CM1", matiere |-> "francais", prefix |-> "CM1FR"],
      [niveau |-> "CM1", matiere |-> "maths", prefix |-> "CM1MA"],
      [niveau |-> "CM2", matiere |-> "francais", prefix |-> "CM2FR"],
      [niveau |-> "CM2", matiere |-> "maths", prefix |-> "CM2MA"]>>

\* `CIRCO_ecoles_${config.prefix.toUpperCase()}.csv`
NomFichier(config) == "CIRCO_ecoles_" \o config.prefix \o ".csv"

\* What chargerFichierCSV gives for each config, in order.
Extractions(fichiers) ==
    [k \in 1..Len(Configs) |->
        ChargerFichierCSV(fichiers, NomFichier(Configs[k]),
                          Configs[k].niveau, Configs[k].matiere)]

\* The merge that keeps the first value of a key already recorded.
AssignerSansEcraser(ecolesMap, ecole) ==
    IF \E i \in 1..Len(ecolesMap) : ecolesMap[i].uai = ecole.uai
    THEN [i \in 1..Len(ecolesMap) |->
            IF ecolesMap[i].uai = ecole.uai
            THEN [ecolesMap[i] EXCEPT !.resultats = @ @@ ecole.resultats]
            ELSE ecolesMap[i]]
    ELSE Append(ecolesMap, [uai |-> ecole.uai, nom |-> ecole.nom,
                            resultats |-> ecole.resultats])

\* The body of resultats.forEach in loadEcoles: the entry of the uai is
\* created on first sight, then Object.assign copies the results over it.
Assigner(ecolesMap, ecole) ==
    IF \E i \in 1..Len(ecolesMap) : ecolesMap[i].uai = ecole.uai
    THEN [i \in 1..Len(ecolesMap) |->
            IF ecolesMap[i].uai = ecole.uai
            THEN [ecolesMap[i] EXCEPT !.resultats = ecole.resultats @@ @]
            ELSE ecolesMap[i]]
    ELSE Append(ecolesMap, [uai |-> ecole.uai, nom |-> ecole.nom,
                            resultats |-> ecole.resultats])

\* ecolesMap after the first n extracted schools.
RECURSIVE Fusionner(_, _)
Fusionner(extraites, n) ==
    IF n = 0 THEN <<>> ELSE Assigner(Fusionner(extraites, n - 1), extraites[n])

\* Array.from(ecolesMap.values()) after every extracted school.
FusionnerTout(extraites) == Fusionner(extraites, Len(extraites))

\* The end of loadEcoles on the lists of the configs.
EcolesFusionnees(parConfig) ==
    [leve |-> \E k \in 1..Len(parConfig) : parConfig[k].leve,
     ecoles |-> FusionnerTout(Concat([k \in 1..Len(parConfig) |-> parConfig[k].ecoles]))]

\* loadEcoles(): the merged schools in order of first appearance, and
\* whether an error of chargerFichierCSV leaves the function.
LoadEcoles(fichiers) == EcolesFusionnees(Extractions(fichiers))

----------------------------------------------------------------------------
(* IPSService and the merge of main()                                      *)

\* getIPSFromCache(uai): <<>> for null.
GetIPSFromCache(ipsCache, uai) ==
    LET trouves == SelectSeq(ipsCache, LAMBDA e : e.uai = Trim(uai))
    IN  IF trouves = <<>> THEN <<>> ELSE <<trouves[1]>>

\* getIPSBatch(uais)
GetIPSBatch(ipsCache, uais) ==
    Concat([k \in 1..Len(uais) |-> GetIPSFromCache(ipsCache, uais[k])])

\* e.ips && !isNaN(e.ips): ips is <<>> when undefined or null.
IPSUtilisable(ips) == ips # <<>> /\ Truthy(ips[1]) /\ ~IsNaN(ips[1])

\* The test of the public filter on (e.secteur || "").
EstPublic(secteur) ==
    ToLowerCase(secteur) = "public" \/ Includes(ToLowerCase(secteur), "public")

\* ecolesWithIPSAll of main: every school with the IPS record found for
\* its uai, if any.
AvecIPS(ecoles, ipsFound) ==
    [k \in 1..Len(ecoles) |->
        LET i == SelectSeq(ipsFound, LAMBDA r : r.uai = ecoles[k].uai)
        IN  [uai |-> ecoles[k].uai,
             nom |-> ecoles[k].nom,
             ips |-> IF i = <<>> THEN <<>> ELSE i[1].ips,
             secteur |-> IF i = <<>> THEN "" ELSE i[1].secteur,
             resultats |-> ecoles[k].resultats]]

\* The same merge without the two filters.
FusionIPSSansFiltre(ecoles, ipsCache) ==
    LET toutes == AvecIPS(ecoles, GetIPSBatch(ipsCache, [k \in 1..Len(ecoles) |-> ecoles[k].uai]))
    IN  [k \in 1..Len(toutes) |->
            [toutes[k] EXCEPT !.ips = IF @ = <<>> THEN NaN ELSE @[1]]]

\* ecolesWithIPS of main: the schools with a usable IPS and a public sector.
FusionIPS(ecoles, ipsCache) ==
    LET toutes == AvecIPS(ecoles, GetIPSBatch(ipsCache, [k \in 1..Len(ecoles) |-> ecoles[k].uai]))
        gardees == SelectSeq(toutes,
                       LAMBDA e : IPSUtilisable(e.ips) /\ EstPublic(e.secteur))
    IN  [k \in 1..Len(gardees) |-> [gardees[k] EXCEPT !.ips = @[1]]]

----------------------------------------------------------------------------
(* The run of main(), from the merged schools to the exports               *)

VARIABLES
    etape,            \* the step of main() that has just completed
    erreur,           \* the message of the error thrown by main(), "" if none
    fichiers,         \* the files of data/orace/csv, by name
    ecoles,           \* the result of oraceService.loadEcoles()
    ipsData,          \* the result of ipsService.loadDepartementIPS()
    effectifsSource,  \* the counts of the source tables, per school and skill
    ecolesWithIPS,    \* the public schools with IPS handed to the analysis
    references,       \* ReferencesService.references
    regressions,      \* AnalyseService.regressions
    donneesRegression,\* the filtered points of the last calculateRegressions, per skill
    analyses,         \* the result of analyserTout
    syntheseEcoles,   \* the result of genererSyntheseParEcole
    ecolesClassees,   \* genererMatricePriorisation().ecolesClassees
    matrice,          \* genererMatricePriorisation().matrice
    cellulesAffichees,\* the nine lines printed by afficherCellule
    ongletMatrice,    \* the data rows of the Excel tab "Matrice"
    graphiques,       \* the graph data per subject label
    leviers           \* the result of genererPortefeuilleLeviers

vars == <<etape, erreur, fichiers, ecoles, ipsData, effectifsSource, ecolesWithIPS, references, regressions,
          donneesRegression,
          analyses, syntheseEcoles, ecolesClassees, matrice, cellulesAffichees,
          ongletMatrice, graphiques, leviers>>

\* The rows school e may have in the source tables.
LignesPossibles(e) ==
    {[c \in ToutesCles |->
         IF c = CleFrancais THEN f ELSE IF c = CleMathsA THEN ma ELSE mb] :
        f \in EffectifsPossibles(e, CleFrancais),
        ma \in EffectifsPossibles(e, CleMathsA),
        mb \in EffectifsPossibles(e, CleMathsB)}

RECURSIVE SourcesPossibles(_)
SourcesPossibles(n) ==
    IF n = 0 THEN {<<>>}
    ELSE {Append(s, l) : s \in SourcesPossibles(n - 1), l \in LignesPossibles(n)}

Init ==
    /\ etape = "fusion"
    /\ erreur = ""
    /\ fichiers = <<>>
    /\ ecoles = <<>>
    /\ ipsData = <<>>
    /\ effectifsSource \in SourcesPossibles(NbEcoles)
    /\ \E repartition \in RepartitionsIPS :
         ecolesWithIPS = EcolesAvecIPS(effectifsSource, repartition)
    /\ references = ReferencesChargees
    /\ regressions = <<>>
    /\ donneesRegression = <<>>
    /\ analyses = <<>>
    /\ syntheseEcoles = <<>>
    /\ ecolesClassees = <<>>
    /\ matrice = <<>>
    /\ cellulesAffichees = <<>>
    /\ ongletMatrice = <<>>
    /\ graphiques = <<>>
    /\ leviers = <<>>

\* analyseService.calculateRegressions(ecolesWithIPS)
CalculateRegressions ==
    /\ etape = "fusion"
    /\ regressions' = CalculerRegressions(regressions, ecolesWithIPS)
    /\ donneesRegression' = DonneesRegression(ecolesWithIPS)
    /\ etape' = "regressions"
    /\ UNCHANGED <<erreur, fichiers, ecoles, ipsData>>
    /\ UNCHANGED <<effectifsSource, ecolesWithIPS, references, analyses,
                   syntheseEcoles, ecolesClassees, matrice, cellulesAffichees,
                   ongletMatrice, graphiques>>
    /\ UNCHANGED leviers

\* analyseService.analyserTout(ecolesWithIPS)
AnalyserToutEtape ==
    /\ etape = "regressions"
    /\ analyses' = AnalyserTout(regressions, references, ecolesWithIPS)
    /\ etape' = "analyses"
    /\ UNCHANGED <<erreur, fichiers, ecoles, ipsData>>
    /\ UNCHANGED <<effectifsSource, ecolesWithIPS, references, regressions,
                   donneesRegression,
                   syntheseEcoles, ecolesClassees, matrice, cellulesAffichees,
                   ongletMatrice, graphiques>>
    /\ UNCHANGED leviers

\* analyseService.genererSyntheseParEcole(analyses)
GenererSynthese ==
    /\ etape = "analyses"
    /\ syntheseEcoles' = GenererSyntheseParEcole(analyses)
    /\ etape' = "synthese"
    /\ UNCHANGED <<erreur, fichiers, ecoles, ipsData>>
    /\ UNCHANGED <<effectifsSource, ecolesWithIPS, references, regressions,
                   donneesRegression,
                   analyses, ecolesClassees, matrice, cellulesAffichees,
                   ongletMatrice, graphiques>>
    /\ UNCHANGED leviers

\* main without the test of the analyses: the strategic levels are built
\* from an empty list.
MatriceSansAnalyse ==
    /\ etape = "synthese"
    /\ analyses = <<>>
    /\ ecolesClassees' = EcolesClassees(analyses)
    /\ matrice' = Matrice(ecolesClassees')
    /\ cellulesAffichees' = AfficherCellules(matrice')
    /\ etape' = "matrice"
    /\ UNCHANGED <<erreur, fichiers, ecoles, ipsData>>
    /\ UNCHANGED <<effectifsSource, ecolesWithIPS, references, regressions,
                   donneesRegression,
                   analyses, syntheseEcoles, ongletMatrice, graphiques>>
    /\ UNCHANGED leviers

\* if (analyses.length === 0) throw new Error("Aucune analyse generee")
AucuneAnalyse ==
    /\ etape = "synthese"
    /\ analyses = <<>>
    /\ etape' = "erreur"
    /\ erreur' = "Aucune analyse generee"
    /\ UNCHANGED <<fichiers, ecoles, ipsData>>
    /\ UNCHANGED <<effectifsSource, ecolesWithIPS, references, regressions,
                   donneesRegression,
                   analyses, syntheseEcoles, ecolesClassees, matrice,
                   cellulesAffichees, ongletMatrice, graphiques>>
    /\ UNCHANGED leviers

\* strategieService.genererMatricePriorisation()
GenererMatricePriorisation ==
    /\ etape = "synthese"
    /\ analyses # <<>>
    /\ ecolesClassees' = EcolesClassees(analyses)
    /\ matrice' = Matrice(ecolesClassees')
    /\ cellulesAffichees' = AfficherCellules(matrice')
    /\ etape' = "matrice"
    /\ UNCHANGED <<erreur, fichiers, ecoles, ipsData>>
    /\ UNCHANGED <<effectifsSource, ecolesWithIPS, references, regressions,
                   donneesRegression,
                   analyses, syntheseEcoles, ongletMatrice, graphiques>>
    /\ UNCHANGED leviers

\* strategieService.genererPortefeuilleLeviers()
GenererPortefeuille ==
    /\ etape = "matrice"
    /\ leviers' = GenererPortefeuilleLeviers(syntheseEcoles)
    /\ etape' = "leviers"
    /\ UNCHANGED <<erreur, fichiers, ecoles, ipsData>>
    /\ UNCHANGED <<effectifsSource, ecolesWithIPS, references, regressions,
                   donneesRegression,
                   analyses, syntheseEcoles, ecolesClassees, matrice,
                   cellulesAffichees, ongletMatrice, graphiques>>

\* exportService.genererFichierStrategique(...): the Matrice tab
GenererFichierStrategique ==
    /\ etape = "leviers"
    /\ ongletMatrice' = CreerOngletMatrice(matrice)
    /\ etape' = "excel"
    /\ UNCHANGED <<erreur, fichiers, ecoles, ipsData>>
    /\ UNCHANGED <<effectifsSource, ecolesWithIPS, references, regressions,
                   donneesRegression,
                   analyses, syntheseEcoles, ecolesClassees, matrice,
                   cellulesAffichees, graphiques>>
    /\ UNCHANGED leviers

\* exportService.genererGraphiquesPDF(...): the Maths graph, then the
\* Francais graph; a rejected graph is logged and skipped.
GenererGraphiquesPDF ==
    /\ etape = "excel"
    /\ graphiques' =
         [m \in {"Maths", "Francais"} |->
             GenererGraphiqueDiscipline(m, analyses, ecolesWithIPS)]
    /\ etape' = "termine"
    /\ UNCHANGED <<erreur, fichiers, ecoles, ipsData>>
    /\ UNCHANGED <<effectifsSource, ecolesWithIPS, references, regressions,
                   donneesRegression,
                   analyses, syntheseEcoles, ecolesClassees, matrice,
                   cellulesAffichees, ongletMatrice>>
    /\ UNCHANGED leviers

Next ==
    \/ CalculateRegressions
    \/ AnalyserToutEtape
    \/ GenererSynthese
    \/ AucuneAnalyse
    \/ GenererMatricePriorisation
    \/ GenererPortefeuille
    \/ GenererFichierStrategique
    \/ GenererGraphiquesPDF

Spec == Init /\ [][Next]_vars

----------------------------------------------------------------------------
(* The run of main() from the source files                                 *)

\* The code of school e in the source files and in the IPS data.
UaiEcole(e) == "038000" \o ToString(e) \o "A"

\* The percentage cells of school e: a plain number, a fraction with a
\* decimal comma, or a number followed by "%".
PourcentFrancais(e) ==
    IF e = 1 THEN "43" ELSE IF e = 2 THEN "57" ELSE IF e = 3 THEN "0,57"
    ELSE IF e = 4 THEN "43" ELSE IF e = 5 THEN "58%" ELSE "57"

PourcentMathsA(e) == IF e \in {1, 3, 5} THEN "58" ELSE "43"

PourcentMathsB(e) == IF e = 4 THEN "" ELSE "57"

\* The layouts of the CP francais file.
FormesFrancais ==
    {"absente", "illisible", "vide", "bonne", "majuscules", "autre signature",
     "sans groupes", "groupes trop bas", "sans pourcentages", "sans competence",
     "doublon"}

\* More layouts of the header rows and of the school rows of the CP
\* francais file, read together with a plain CP maths file.
FormesEnTete ==
    {"groupes ligne 10", "satisfaisant ligne 2", "groupes ligne 3",
     "pourcentages 3 plus bas", "pourcentages 4 plus bas", "repondants seuls",
     "marqueur au-dessus", "deux lignes pourcentages",
     "lignes avant ecoles", "codes courts", "valeurs en ligne 11",
     "cellules variees", "ecart fin"}

\* The layouts of the CP maths file.
FormesMaths == {"absente", "illisible", "bonne", "colonne double"}

\* The rows above the schools in the CP francais file.
EnTeteFrancais(forme) ==
    LET signature ==
            IF forme = "autre signature" THEN <<"Evaluation CPMA 2025">>
            ELSE IF forme = "majuscules" THEN <<"EVALUATION CPFR 2025">>
            ELSE <<"Evaluation CPFR 2025">>
        competences ==
            IF forme = "sans competence" THEN <<"", "", "Lire">>
            ELSE IF forme = "groupes ligne 3"
                 THEN <<"Exercice satisfaisant", "", "Lire des mots">>
            ELSE <<"", "", "Lire des mots">>
        groupes ==
            IF forme = "sans groupes" THEN <<"", "", "Groupe fragile">>
            ELSE IF forme = "majuscules" THEN <<"", "", "GROUPE SATISFAISANT">>
            ELSE <<"", "", "Groupe satisfaisant">>
        pourcentages ==
            IF forme \in {"sans pourcentages", "marqueur au-dessus"}
            THEN <<<<"UAI", "Ecole", "Taux">>>>
            ELSE IF forme = "repondants seuls" THEN <<<<"UAI", "Ecole", "Repondants">>>>
            ELSE IF forme = "deux lignes pourcentages"
                 THEN <<<<"UAI", "Ecole", "% repondants">>, <<"", "", "%">>>>
            ELSE IF forme = "valeurs en ligne 11"
                 THEN <<<<"UAI", "Ecole", "50 % et plus">>>>
            ELSE <<<<"UAI", "Ecole", "% repondants">>>>
        entre ==
            IF forme = "pourcentages 3 plus bas" THEN <<<<"">>, <<"">>>>
            ELSE IF forme = "pourcentages 4 plus bas" THEN <<<<"">>, <<"">>, <<"">>>>
            ELSE <<>>
        vides == IF forme = "groupes trop bas" THEN [k \in 1..7 |-> <<"">>]
                 ELSE IF forme \in {"groupes ligne 10", "valeurs en ligne 11"}
                      THEN [k \in 1..6 |-> <<"">>]
                 ELSE <<>>
        ligne2 ==
            IF forme = "satisfaisant ligne 2" THEN <<"Groupe satisfaisant">>
            ELSE IF forme = "marqueur au-dessus" THEN <<"% repondants">>
            ELSE <<"">>
    IN  <<signature, ligne2, competences>> \o vides \o <<groupes>> \o entre
        \o pourcentages

\* The row of school e in the CP francais file.
LigneFrancais(e) == <<UaiEcole(e), NomEcole(e), PourcentFrancais(e)>>

\* A row whose code has fewer than 7 characters.
LigneCodeCourt(e) == <<"E" \o ToString(e), NomEcole(e), "57">>

\* Texts of a percentage cell: fractions, plain numbers, numbers followed
\* by "%", texts that are not a number, an empty cell.
CellulesVariees ==
    <<"0,57", "0.5", "57", "57 %", "0", "1", "100", "12,5%", "abs", "", " ",
      "12 eleves">>

\* The row of the CP francais file that holds the k-th of these texts.
LigneVariee(k) == <<"0381" \o ToString(100 + k) \o "B", NomEcole(k), CellulesVariees[k]>>

\* The rows below the header of the CP francais file: one row per school;
\* for "doublon" also a total row, a second row of school 1 and a row
\* without code; for "lignes avant ecoles" rows that are not school rows
\* before the first school and between the schools; for "codes courts" and
\* "valeurs en ligne 11" only rows with a short code; for "cellules
\* variees" one row per text of CellulesVariees; for "ecart fin" school 2
\* has the rate 57,06, which puts gaps at 7.03 points.
LignesSousEnTete(forme) ==
    IF forme = "lignes avant ecoles" THEN
        <<<<"Code UAI", "Nom", "61">>,
          <<"Total circo", "Ensemble", "52">>,
          <<"E9", "Code court", "62">>,
          <<"0380009A", "", "63">>>>
        \o [e \in 1..3 |-> LigneFrancais(e)]
        \o <<<<"TOTAL", "Circonscription", "52">>, LigneCodeCourt(8)>>
        \o [k \in 1..(NbEcoles - 3) |-> LigneFrancais(k + 3)]
    ELSE IF forme = "codes courts" THEN [e \in 1..(NbEcoles + 3) |-> LigneCodeCourt(e)]
    ELSE IF forme = "valeurs en ligne 11" THEN [e \in 1..2 |-> LigneCodeCourt(e)]
    ELSE IF forme = "cellules variees"
         THEN [k \in 1..Len(CellulesVariees) |-> LigneVariee(k)]
    ELSE IF forme = "ecart fin"
         THEN [e \in 1..NbEcoles |->
                  IF e = 2 THEN <<UaiEcole(e), NomEcole(e), "57,06">>
                  ELSE LigneFrancais(e)]
    ELSE [e \in 1..NbEcoles |-> LigneFrancais(e)]
         \o (IF forme = "doublon"
             THEN <<<<"Total", "", "52">>,
                    <<UaiEcole(1), "Ecole 1 bis", "58">>,
                    <<"", "Sans code", "57">>>>
             ELSE <<>>)

\* The CP francais file.
FichierFrancais(forme) ==
    [lisible |-> forme # "illisible",
     lignes |->
        IF forme \in {"illisible", "vide"} THEN <<>>
        ELSE EnTeteFrancais(forme) \o LignesSousEnTete(forme)]

\* More layouts of the columns of the CP maths file, read together with a
\* plain CP francais file.
FormesColonnes ==
    {"trois groupes", "marqueur hors bloc", "sans groupe satisfaisant",
     "groupe en fin de bloc", "marqueur trop loin"}

\* The skill row, the group-label row and the value-kind row of the CP
\* maths file.
ColonnesMaths(forme) ==
    IF forme = "trois groupes" THEN
        <<<<"Competences evaluees", "Exercices", "Ecrire des nombres", "", "", "", "", "",
            "Calculer en ligne", "", "", "", "", "">>,
          <<"", "", "Groupe a besoins", "", "Groupe fragile", "",
            "Groupe satisfaisant", "", "Groupe a besoins", "", "Groupe fragile", "",
            "Groupe satisfaisant", "">>,
          <<"UAI", "Ecole", "Nb", "%", "Nb", "%", "Nb", "%",
            "Nb", "%", "Nb", "%", "Nb", "%">>>>
    ELSE IF forme = "marqueur hors bloc" THEN
        <<<<"", "", "Ecrire des nombres", "", "Calculer en ligne", "">>,
          <<"", "", "Groupe satisfaisant", "", "Groupe satisfaisant", "">>,
          <<"UAI", "Ecole", "Nb", "Nb", "Nb", "%">>>>
    ELSE IF forme = "sans groupe satisfaisant" THEN
        <<<<"", "", "Ecrire des nombres", "Calculer en ligne">>,
          <<"", "", "Groupe fragile", "Groupe satisfaisant">>,
          <<"UAI", "Ecole", "%", "%">>>>
    ELSE IF forme = "groupe en fin de bloc" THEN
        <<<<"", "", "Ecrire des nombres", "Calculer en ligne">>,
          <<"", "", "Groupe satisfaisant", "Groupe satisfaisant">>,
          <<"UAI", "Ecole", "Nb", "%">>>>
    ELSE IF forme = "marqueur trop loin" THEN
        <<<<"", "", "Ecrire des nombres", "", "", "", "", "Calculer en ligne">>,
          <<"", "", "Groupe satisfaisant", "", "", "", "", "Groupe satisfaisant">>,
          <<"UAI", "Ecole", "Nb", "Nb", "Nb", "Nb", "%", "%">>>>
    ELSE
        <<<<"", "", "Ecrire des nombres",
            IF forme = "colonne double" THEN "Ecrire des nombres"
            ELSE "Calculer en ligne">>,
          <<"", "", "Groupe satisfaisant", "Groupe satisfaisant">>,
          <<"UAI", "Ecole", "%", "%">>>>

\* The row of school e in the CP maths file.
LigneMaths(forme, e) ==
    <<UaiEcole(e), NomEcole(e)>>
    \o (IF forme = "trois groupes"
        THEN <<"5", "20", "6", "22", "14", PourcentMathsA(e),
               "5", "20", "6", "23", "14", PourcentMathsB(e)>>
        ELSE IF forme = "marqueur hors bloc"
        THEN <<"12", "13", "14", PourcentMathsB(e)>>
        ELSE IF forme = "groupe en fin de bloc" THEN <<"12", PourcentMathsB(e)>>
        ELSE IF forme = "marqueur trop loin"
        THEN <<"12", PourcentMathsA(e), "14", "15", "16", PourcentMathsB(e)>>
        ELSE <<PourcentMathsA(e), PourcentMathsB(e)>>)

\* The CP maths file: two skills, or twice the same skill name.
FichierMaths(forme) ==
    [lisible |-> forme # "illisible",
     lignes |->
        IF forme = "illisible" THEN <<>>
        ELSE <<<<"Evaluation CPMA 2025">>, <<"">>>>
             \o ColonnesMaths(forme)
             \o [e \in 1..NbEcoles |-> LigneMaths(forme, e)]]

\* The directory data/orace/csv with the two files in the given layouts.
Fichiers(formeFrancais, formeMaths) ==
    (IF formeFrancais = "absente" THEN <<>>
     ELSE (NomFichier(Configs[1]) :> FichierFrancais(formeFrancais)))
    @@ (IF formeMaths = "absente" THEN <<>>
        ELSE (NomFichier(Configs[2]) :> FichierMaths(formeMaths)))

FichiersPossibles ==
    {Fichiers(ff, fm) : ff \in FormesFrancais, fm \in FormesMaths}
    \cup {Fichiers(ff, "bonne") : ff \in FormesEnTete}
    \cup {Fichiers("bonne", fm) : fm \in FormesColonnes}

\* The cases of the IPS data of the department.
CasIPS ==
    {"vide", "complet", "majuscule", "uniforme", "un sans ips", "aucun indice",
     "une privee", "une absente", "toutes privees"}

\* What downloadDepartementIPS or the cache gives: per school the uai, the
\* ips (parseFloat(record.ips) || null, <<>> for null) and the sector.
DonneesIPS(cas) ==
    LET presentes == SelectSeq([e \in 1..NbEcoles |-> e],
                         LAMBDA e : ~(cas = "une absente" /\ e = 3))
        ips(e) == IF cas = "aucun indice" \/ (cas = "un sans ips" /\ e = 1) THEN <<>>
                  ELSE IF cas = "uniforme" THEN <<Num(100)>>
                  ELSE <<Num(IPSDe("mixte", e))>>
        secteur(e) == IF cas = "toutes privees" \/ (cas = "une privee" /\ e = 2)
                      THEN "prive sous contrat"
                      ELSE IF cas = "majuscule" THEN "Public"
                      ELSE "public"
    IN  IF cas = "vide" THEN <<>>
        ELSE [k \in 1..Len(presentes) |->
                 [uai |-> UaiEcole(presentes[k]),
                  ips |-> ips(presentes[k]),
                  secteur |-> secteur(presentes[k])]]

InitChargement ==
    /\ etape = "debut"
    /\ erreur = ""
    /\ fichiers \in FichiersPossibles
    /\ ecoles = <<>>
    /\ ipsData = <<>>
    /\ effectifsSource = <<>>
    /\ ecolesWithIPS = <<>>
    /\ references = ReferencesChargees
    /\ regressions = <<>>
    /\ donneesRegression = <<>>
    /\ analyses = <<>>
    /\ syntheseEcoles = <<>>
    /\ ecolesClassees = <<>>
    /\ matrice = <<>>
    /\ cellulesAffichees = <<>>
    /\ ongletMatrice = <<>>
    /\ graphiques = <<>>
    /\ leviers = <<>>

suite == <<effectifsSource, ecolesWithIPS, references, regressions,
           donneesRegression, analyses, syntheseEcoles, ecolesClassees, matrice,
           cellulesAffichees, ongletMatrice, graphiques, leviers>>

\* oraceService.loadEcoles(); an error that leaves it is caught by main,
\* which logs it and exits.
LoadEcolesEtape ==
    /\ etape = "debut"
    /\ \E charge \in {LoadEcoles(fichiers)} :
           IF charge.leve
           THEN /\ ecoles' = <<>>
                /\ etape' = "erreur"
                /\ erreur' = "Erreur fatale"
           ELSE /\ ecoles' = charge.ecoles
                /\ etape' = "orace"
                /\ erreur' = erreur
    /\ UNCHANGED <<fichiers, ipsData>>
    /\ UNCHANGED suite

\* if (ecoles.length === 0) throw new Error("Aucune ecole trouvee dans ORACE")
AucuneEcole ==
    /\ etape = "orace"
    /\ ecoles = <<>>
    /\ etape' = "erreur"
    /\ erreur' = "Aucune ecole trouvee dans ORACE"
    /\ UNCHANGED <<fichiers, ecoles, ipsData>>
    /\ UNCHANGED suite

\* ipsService.loadDepartementIPS(CONFIG.DEPARTEMENT)
LoadDepartementIPS ==
    /\ etape = "orace"
    /\ ecoles # <<>>
    /\ \E cas \in CasIPS : ipsData' = DonneesIPS(cas)
    /\ etape' = "ips"
    /\ UNCHANGED <<erreur, fichiers, ecoles>>
    /\ UNCHANGED suite

\* if (ipsData.length === 0) throw new Error("Aucun IPS recupere")
AucunIPS ==
    /\ etape = "ips"
    /\ ipsData = <<>>
    /\ etape' = "erreur"
    /\ erreur' = "Aucun IPS recupere"
    /\ UNCHANGED <<fichiers, ecoles, ipsData>>
    /\ UNCHANGED suite

\* Step 3 of main: getIPSBatch, the merge and the two filters.
FusionEtape ==
    /\ etape = "ips"
    /\ ipsData # <<>>
    /\ ecolesWithIPS' = FusionIPS(ecoles, ipsData)
    /\ etape' = "fusion"
    /\ UNCHANGED <<erreur, fichiers, ecoles, ipsData, effectifsSource, references,
                   regressions, donneesRegression, analyses, syntheseEcoles,
                   ecolesClassees, matrice, cellulesAffichees, ongletMatrice,
                   graphiques>>
    /\ UNCHANGED leviers

NextChargement ==
    \/ LoadEcolesEtape
    \/ AucuneEcole
    \/ LoadDepartementIPS
    \/ AucunIPS
    \/ FusionEtape
    \/ CalculateRegressions
    \/ AnalyserToutEtape
    \/ GenererSynthese
    \/ AucuneAnalyse
    \/ GenererMatricePriorisation
    \/ GenererPortefeuille
    \/ GenererFichierStrategique
    \/ GenererGraphiquesPDF

SpecChargement == InitChargement /\ [][NextChargement]_vars

----------------------------------------------------------------------------
(* The run of main() for a district of more than ten schools               *)

NbEcolesPortefeuille == 12

\* The rows school e may have: the schools stand out on one skill each, by
\* groups of four; some may stand out on none, the twelfth on two.
LignesPortefeuille(e) ==
    LET c == Competences[(((e - 1) \div 4) % 3) + 1]
        \* the rate 58 on the skills of hautes and 43 on the others
        LigneHaute(hautes) ==
            [k \in ToutesCles |->
                IF k \in hautes THEN Eff(22, 20, 58) ELSE Eff(30, 27, 43)]
    IN  IF e \in {1, 2, 5, 6, 9} THEN {LigneHaute({c}), LigneHaute({})}
        ELSE IF e = 12 THEN {LigneHaute({c}), LigneHaute({c, CleFrancais})}
        ELSE {LigneHaute({c})}

RECURSIVE SourcesPortefeuille(_)
SourcesPortefeuille(n) ==
    IF n = 0 THEN {<<>>}
    ELSE {Append(s, l) : s \in SourcesPortefeuille(n - 1), l \in LignesPortefeuille(n)}

InitPortefeuille ==
    /\ etape = "fusion"
    /\ erreur = ""
    /\ fichiers = <<>>
    /\ ecoles = <<>>
    /\ ipsData = <<>>
    /\ effectifsSource \in SourcesPortefeuille(NbEcolesPortefeuille)
    /\ ecolesWithIPS = EcolesAvecIPS(effectifsSource, "alternee")
    /\ references = ReferencesChargees
    /\ regressions = <<>>
    /\ donneesRegression = <<>>
    /\ analyses = <<>>
    /\ syntheseEcoles = <<>>
    /\ ecolesClassees = <<>>
    /\ matrice = <<>>
    /\ cellulesAffichees = <<>>
    /\ ongletMatrice = <<>>
    /\ graphiques = <<>>
    /\ leviers = <<>>

NextPortefeuille ==
    \/ CalculateRegressions
    \/ AnalyserToutEtape
    \/ GenererSynthese
    \/ GenererMatricePriorisation
    \/ GenererPortefeuille
    \/ GenererFichierStrategique
    \/ GenererGraphiquesPDF

SpecPortefeuille == InitPortefeuille /\ [][NextPortefeuille]_vars

----------------------------------------------------------------------------
(* Calls of calculateRegressions on one AnalyseService                     *)

\* The source tables of one call: school 1 has the rate taux on every
\* skill and the others 57; the schools after the third have no pupil on
\* the skills of absentes, which then have three points.
SourceAppel(taux, absentes) ==
    [e \in 1..NbEcoles |->
        [c \in ToutesCles |->
            IF e > 3 /\ c \in absentes THEN AucunEleve
            ELSE IF e = 1 THEN taux
            ELSE Eff(23, 20, 57)]]

\* The lists of schools a call may receive.
EntreesAppels ==
    {EcolesAvecIPS(SourceAppel(taux, absentes), "mixte") :
        taux \in {Eff(30, 27, 43), Eff(23, 20, 57), Eff(22, 20, 58)},
        absentes \in SUBSET ToutesCles}

\* new AnalyseService(referencesService): this.regressions = {}
InitAppels ==
    /\ etape = "fusion"
    /\ erreur = ""
    /\ fichiers = <<>>
    /\ ecoles = <<>>
    /\ ipsData = <<>>
    /\ effectifsSource = <<>>
    /\ ecolesWithIPS = <<>>
    /\ references = ReferencesChargees
    /\ regressions = <<>>
    /\ donneesRegression = <<>>
    /\ analyses = <<>>
    /\ syntheseEcoles = <<>>
    /\ ecolesClassees = <<>>
    /\ matrice = <<>>
    /\ cellulesAffichees = <<>>
    /\ ongletMatrice = <<>>
    /\ graphiques = <<>>
    /\ leviers = <<>>

\* calculateRegressions(entree) on the same service, for the first time
\* or again.
AppelCalculateRegressions ==
    \E entree \in EntreesAppels :
        /\ ecolesWithIPS' = entree
        /\ regressions' = CalculerRegressions(regressions, entree)
        /\ donneesRegression' = DonneesRegression(entree)
        /\ etape' = "regressions"
        /\ UNCHANGED <<erreur, fichiers, ecoles, ipsData, effectifsSource, references,
                       analyses, syntheseEcoles, ecolesClassees, matrice,
                       cellulesAffichees, ongletMatrice, graphiques, leviers>>

NextAppels == AppelCalculateRegressions

SpecAppels == InitAppels /\ [][NextAppels]_vars

----------------------------------------------------------------------------
(* Properties                                                              *)

Elements(s) == {s[i] : i \in 1..Len(s)}

\* The school of ecolesWithIPS with code u.
EcoleDUai(u) == CHOOSE e \in Elements(ecolesWithIPS) : e.uai = u

\* The gap of an analysis before rounding, from the stored regression.
EcartExact(a) ==
    LET e == EcoleDUai(a.uai)
        c == a.competence_complete
    IN  RSub(e.resultats[c],
             RAdd(RMul(regressions[c].a, e.ips), regressions[c].b))

MatriceFaite == etape \in {"matrice", "leviers", "excel", "termine"}

\* C1: every analysis is LEVIER exactly when its gap (actual - expected) is
\* > 7, VIGILANCE exactly when it is < -7, and CONFORME otherwise; gaps of
\* exactly +7 and -7 are CONFORME.
C1_CategorieSelonEcart ==
    \A a \in Elements(analyses) :
        LET ecart == EcartExact(a)
        IN  /\ a.categorie_code \in {"LEVIER", "VIGILANCE", "CONFORME"}
            /\ (a.categorie_code = "LEVIER") = RGt(ecart, Num(7))
            /\ (a.categorie_code = "VIGILANCE") = RLt(ecart, Num(-7))
            /\ ecart \in {Num(7), Num(-7)} => a.categorie_code = "CONFORME"

\* A run whose analyses hold a gap of exactly +7, one of exactly -7, a
\* LEVIER and a VIGILANCE.
C1_Witness ==
    /\ \E a \in Elements(analyses) :
          EcartExact(a) = Num(7) /\ a.categorie_code = "CONFORME"
    /\ \E a \in Elements(analyses) :
          EcartExact(a) = Num(-7) /\ a.categorie_code = "CONFORME"
    /\ \E a \in Elements(analyses) : a.categorie_code = "LEVIER"
    /\ \E a \in Elements(analyses) : a.categorie_code = "VIGILANCE"

\* The schools with a numeric IPS and a defined, numeric rate for skill c.
EcolesAvecTaux(c) ==
    {i \in 1..Len(ecolesWithIPS) :
        /\ c \in DOMAIN ecolesWithIPS[i].resultats
        /\ Fini(ecolesWithIPS[i].resultats[c])
        /\ Fini(ecolesWithIPS[i].ips)}

\* C2: after calculateRegressions a skill has a Regression if and only if at
\* least 4 schools have a valid (IPS, rate) pair for it, and the n of the
\* Regression is the number of these pairs.
C2_RegressionSiQuatrePoints ==
    etape # "fusion" =>
        \A c \in ToutesCles :
            /\ (c \in DOMAIN regressions) = (Cardinality(EcolesAvecTaux(c)) >= 4)
            /\ c \in DOMAIN regressions =>
                   regressions[c].n = Cardinality(EcolesAvecTaux(c))

\* A run in which four schools have a rate for the francais skill, one of
\* them a rate of 0, and no Regression is stored for the skill.
C2_CasObserve ==
    /\ etape = "regressions"
    /\ effectifsSource[1][CleFrancais] = Eff(60, 40, 0)
    /\ Cardinality(EcolesAvecTaux(CleFrancais)) = 4
    /\ Len(donneesRegression[CleFrancais]) = 3
    /\ CleFrancais \notin DOMAIN regressions

\* C3 as stated: the priority of a classified school follows the table
\* with (C,L) = (L,C) = 2.
C3_PrioriteSelonTableSpec ==
    MatriceFaite =>
        \A e \in Elements(ecolesClassees) :
            e.priorite =
                (("V,V" :> 0) @@ ("V,C" :> 1) @@ ("C,V" :> 1) @@ ("V,L" :> 2)
                 @@ ("L,V" :> 2) @@ ("C,C" :> 3) @@ ("C,L" :> 2) @@ ("L,C" :> 2)
                 @@ ("L,L" :> 5))[CleProfil(e.profil_maths, e.profil_francais)]

\* C3 amended: the priority of a classified school is 0 for (V,V), 1 for
\* (V,C) and (C,V), 2 for (V,L) and (L,V), 3 for (C,C), 4 for (C,L) and
\* (L,C), 5 for (L,L).
C3_PrioriteSelonTable ==
    MatriceFaite =>
        \A e \in Elements(ecolesClassees) :
            LET pm == e.profil_maths
                pf == e.profil_francais
            IN  /\ {pm, pf} \subseteq {"V", "C", "L"}
                /\ e.priorite =
                     IF pm = "V" /\ pf = "V" THEN 0
                     ELSE IF {pm, pf} = {"V", "C"} THEN 1
                     ELSE IF {pm, pf} = {"V", "L"} THEN 2
                     ELSE IF pm = "C" /\ pf = "C" THEN 3
                     ELSE IF {pm, pf} = {"C", "L"} THEN 4
                     ELSE 5

\* A run that classifies a school (C,L) and another school elsewhere.
C3_Witness ==
    /\ MatriceFaite
    /\ \E e \in Elements(ecolesClassees) :
          e.profil_maths = "C" /\ e.profil_francais = "L" /\ e.priorite = 4
    /\ \E e \in Elements(ecolesClassees) :
          e.profil_maths = "C" /\ e.profil_francais = "V" /\ e.priorite = 1

PrioritesReadme ==
    ("V,V" :> 0) @@ ("V,C" :> 1) @@ ("C,V" :> 1) @@ ("V,L" :> 2) @@ ("L,V" :> 2)
    @@ ("C,C" :> 3) @@ ("C,L" :> 4) @@ ("L,C" :> 4) @@ ("L,L" :> 5)

\* C5: for each of the 9 pairs, calculerPriorite, the priority printed for
\* the cell, the priority of the cell in the Excel tab and the priority of
\* the schools placed in the cell are the value of the README matrix.
C5_PrioritesConcordantes ==
    etape \in {"excel", "termine"} =>
        \A pm \in {"V", "C", "L"}, pf \in {"V", "C", "L"} :
            LET cle == CleProfil(pm, pf)
                attendue == PrioritesReadme[cle]
                affichees == {x \in Elements(cellulesAffichees) : x.cle = cle}
                lignes == {x \in Elements(ongletMatrice) : x.cle = cle}
            IN  /\ CalculerPriorite(pm, pf) = attendue
                /\ Cardinality(affichees) = 1
                /\ \A x \in affichees : x.priorite = "P" \o ToString(attendue)
                /\ Cardinality(lignes) = 1
                /\ \A x \in lignes : x.prio = "P" \o ToString(attendue)
                /\ \A e \in Elements(matrice[cle]) : e.priorite = attendue

\* A run whose Excel tab is written with a school in the cell (L,C).
C5_Witness ==
    /\ etape = "excel"
    /\ Len(matrice["L,C"]) > 0
    /\ \E x \in Elements(ongletMatrice) : x.cle = "L,C" /\ x.nb > 0
    /\ \E x \in Elements(cellulesAffichees) : x.cle = "L,C" /\ x.nb > 0

\* The crossing table of the README for the global profile.
ProfilGlobalReadme ==
    ("V,V" :> "ACCOMPAGNEMENT PRIORITAIRE")
    @@ ("V,C" :> "VIGILANCE MODEREE") @@ ("C,V" :> "VIGILANCE MODEREE")
    @@ ("V,L" :> "SUIVI RENFORCE") @@ ("L,V" :> "SUIVI RENFORCE")
    @@ ("C,L" :> "SUIVI RENFORCE") @@ ("L,C" :> "SUIVI RENFORCE")
    @@ ("C,C" :> "SUIVI STANDARD") @@ ("L,L" :> "ECOLE LEVIER")

\* C6: the global profile of a school in the synthesis is the cell of the
\* crossing table for its maths and francais profiles; it is ACCOMPAGNEMENT
\* PRIORITAIRE only for (V,V) and SUIVI STANDARD for (C,C).
C6_ProfilGlobalCroise ==
    MatriceFaite =>
        \A s \in Elements(syntheseEcoles) :
            \A e \in Elements(ecolesClassees) :
                e.uai = s.uai =>
                    s.profil_global =
                        ProfilGlobalReadme[CleProfil(e.profil_maths, e.profil_francais)]

\* A run in which a school classified (V,C) is labelled ACCOMPAGNEMENT
\* PRIORITAIRE in the synthesis, with one skill of two in vigilance.
C6_CasObserve ==
    /\ MatriceFaite
    /\ \E e \in Elements(ecolesClassees) :
          /\ e.profil_maths = "V" /\ e.profil_francais = "C"
          /\ \E s \in Elements(syntheseEcoles) :
                /\ s.uai = e.uai
                /\ s.nb_vigilance = 1 /\ s.nb_total = 2
                /\ s.profil_global = "ACCOMPAGNEMENT PRIORITAIRE"


GraphiquesFaits == etape = "termine"

\* The skills of the subject labelled m that the school with code u has a
\* result for and that have a Regression.
ClesMatiere(u, m) ==
    {c \in DOMAIN EcoleDUai(u).resultats \cap DOMAIN regressions :
        MatiereLabel(c.matiere) = m}

\* 100 * (sum of S) / (sum of B + F + S) over the source counts of school u
\* for the skills cles.
TauxCumule(u, cles) ==
    LET s == SelectSeq(Competences, LAMBDA c : c \in cles)
        satisfaisants == SommeSeq([i \in 1..Len(s) |->
                             Num(effectifsSource[u][s[i]].satisfaisant)])
        totaux == SommeSeq([i \in 1..Len(s) |-> Num(TotalEff(effectifsSource[u][s[i]]))])
    IN  RDiv(RMul(Num(100), satisfaisants), totaux)

\* The mean of slope * ips + intercept over the skills of the subject
\* labelled m that have a Regression, for the school with code u.
AttenduMoyen(u, m) ==
    LET s == SelectSeq(Competences,
                 LAMBDA c : c \in DOMAIN regressions /\ MatiereLabel(c.matiere) = m)
    IN  RDiv(SommeSeq([i \in 1..Len(s) |->
                 PredictFromIPS(regressions, s[i], EcoleDUai(u).ips)]),
             Num(Len(s)))

\* C7: in every graph, the subject-level rate of a school is
\* 100 * (sum of S) / (sum of B + F + S) over its skills of the subject.
C7_TauxMatiereCumule ==
    GraphiquesFaits =>
        \A m \in DOMAIN graphiques :
            \A d \in Elements(graphiques[m].donnees) :
                d.pct_satisfaisant_moyen = TauxCumule(d.uai, ClesMatiere(d.uai, m))

\* A run whose Maths graph gives school 3 a rate of 0 over 0 pupils while
\* its source counts give 57.
C7_CasObserve ==
    /\ GraphiquesFaits
    /\ graphiques["Maths"].statut = "genere"
    /\ \E d \in Elements(graphiques["Maths"].donnees) :
          /\ d.uai = 3
          /\ d.nb_eleves_total = 0
          /\ d.pct_satisfaisant_moyen = Num(0)
          /\ TauxCumule(3, ClesMatiere(3, "Maths")) = Num(57)

\* The profile letter the +-7 thresholds give to a gap.
LettreSelonEcart(ecart) ==
    IF RGt(ecart, Num(7)) THEN "L" ELSE IF RLt(ecart, Num(-7)) THEN "V" ELSE "C"

\* C8: the maths and francais profiles of a classified school are L when
\* its subject-level rate minus its subject-level expected rate is > 7, V
\* when it is < -7, and C otherwise.
C8_ProfilMatiereSelonEcart ==
    MatriceFaite =>
        \A e \in Elements(ecolesClassees) :
            /\ ClesMatiere(e.uai, "Maths") # {} =>
                  e.profil_maths =
                      LettreSelonEcart(RSub(TauxCumule(e.uai, ClesMatiere(e.uai, "Maths")),
                                            AttenduMoyen(e.uai, "Maths")))
            /\ ClesMatiere(e.uai, "Francais") # {} =>
                  e.profil_francais =
                      LettreSelonEcart(RSub(TauxCumule(e.uai, ClesMatiere(e.uai, "Francais")),
                                            AttenduMoyen(e.uai, "Francais")))

\* A run in which school 1 has one maths skill LEVIER and one VIGILANCE,
\* a subject-level gap of 0, and the maths profile L.
C8_CasObserve ==
    /\ MatriceFaite
    /\ \E e \in Elements(ecolesClassees) :
          /\ e.uai = 1
          /\ e.maths = [leviers |-> 1, conformes |-> 0, vigilance |-> 1]
          /\ e.profil_maths = "L"
          /\ RSub(TauxCumule(1, ClesMatiere(1, "Maths")), AttenduMoyen(1, "Maths")) = Num(0)

\* C9 as stated: in every graph, the expected rate of a school (its rate
\* minus its gap) is the mean of the per-skill predictions of the subject.
C9_AttenduMoyenneDesCompetences ==
    GraphiquesFaits =>
        \A m \in DOMAIN graphiques :
            \A d \in Elements(graphiques[m].donnees) :
                RSub(d.pct_satisfaisant_moyen, d.ecart_regression) = AttenduMoyen(d.uai, m)

\* C9 amended: every generated graph has its own regression, fitted by
\* least squares over the (ips, subject-level rate) points of its schools
\* (at least 4): the gap of each school is its rate minus m * ips + b of
\* that regression, and the gaps satisfy the normal equations of the fit.
C9_RegressionParMatiere ==
    GraphiquesFaits =>
        \A m \in DOMAIN graphiques :
            graphiques[m].statut = "genere" =>
                LET reg == graphiques[m].regression[1]
                    d == graphiques[m].donnees
                    ecarts == [i \in 1..Len(d) |-> d[i].ecart_regression]
                IN  /\ Len(d) >= 4
                    /\ \A i \in 1..Len(d) :
                          d[i].ecart_regression =
                              RSub(d[i].pct_satisfaisant_moyen,
                                   RAdd(RMul(reg.m, d[i].ips), reg.b))
                    /\ \/ /\ \A i \in 1..Len(d) : d[i].ips = d[1].ips
                          /\ IsNaN(reg.m)
                       \/ /\ \E i \in 1..Len(d) : d[i].ips # d[1].ips
                          /\ SommeSeq(ecarts) = Num(0)
                          /\ SommeSeq([i \in 1..Len(d) |-> RMul(d[i].ips, ecarts[i])]) = Num(0)

\* A run with a generated graph of schools of different IPS, for a subject
\* whose per-skill predictions are not 0.
C9_Witness ==
    /\ GraphiquesFaits
    /\ \E m \in DOMAIN graphiques :
          /\ graphiques[m].statut = "genere"
          /\ \E i, j \in 1..Len(graphiques[m].donnees) :
                graphiques[m].donnees[i].ips # graphiques[m].donnees[j].ips
          /\ \E d \in Elements(graphiques[m].donnees) :
                RGt(AttenduMoyen(d.uai, m), Num(0))

\* The schools of the source tables with pupils in skill c.
EcolesAvecEleves(c) == {e \in Ecoles : TotalEff(effectifsSource[e][c]) > 0}

----------------------------------------------------------------------------
(* Schools without any classified skill of a subject                       *)

TotalStats(stats) == stats.leviers + stats.conformes + stats.vigilance

\* The classified schools with no analysis of one of the two subjects.
EcolesSansMatiere ==
    {e \in Elements(ecolesClassees) :
        TotalStats(e.maths) = 0 \/ TotalStats(e.francais) = 0}

\* The entries of the nine cells of the matrix.
EcolesDeLaMatrice ==
    UNION {Elements(matrice[cle]) : cle \in DOMAIN matrice}

\* C11 (as stated): a school without any classified skill of a subject has
\* no profile for that subject and is left out of the cross classification:
\* it is in no cell of the priority matrix.
C11_SansMatiereHorsMatrice ==
    MatriceFaite =>
        \A e \in EcolesSansMatiere :
            \A x \in EcolesDeLaMatrice : x.uai # e.uai

\* C11 (amended): a school without any classified skill of a subject has
\* profile "C" for that subject, is in exactly one cell of the priority
\* matrix, the one of its pair of profiles, with the priority of that cell;
\* its classifications of the skills it has are all among the analyses.
C11_SansMatiereProfilConforme ==
    MatriceFaite =>
        \A e \in EcolesSansMatiere :
            LET cle == CleProfil(e.profil_maths, e.profil_francais)
            IN  /\ TotalStats(e.maths) = 0 => e.profil_maths = "C"
                /\ TotalStats(e.francais) = 0 => e.profil_francais = "C"
                /\ cle \in DOMAIN matrice
                /\ \A k \in DOMAIN matrice :
                       Len(SelectSeq(matrice[k], LAMBDA x : x.uai = e.uai))
                           = IF k = cle THEN 1 ELSE 0
                /\ e.priorite = Priorites[cle]
                /\ \A c \in ToutesCles :
                       Elements(Categoriser(regressions, references,
                                            EcoleDUai(e.uai), c))
                           \subseteq Elements(analyses)

\* A classified school has maths analyses and no analysis of French, while
\* another school has analyses of French.
C11_Witness ==
    /\ MatriceFaite
    /\ \E e, f \in Elements(ecolesClassees) :
           /\ TotalStats(e.francais) = 0 /\ TotalStats(e.maths) > 0
           /\ TotalStats(f.francais) > 0

----------------------------------------------------------------------------
(* The schools that reach the regressions and the classification           *)

\* The record of the IPS data for a school code, as zero or one record.
IPSDeUai(u) == GetIPSFromCache(ipsData, u)

\* The school code has a record with a finite, non-zero index and the
\* public sector.
IndiceDefiniEtPublic(u) ==
    /\ IPSDeUai(u) # <<>>
    /\ IPSDeUai(u)[1].ips # <<>>
    /\ Fini(IPSDeUai(u)[1].ips[1])
    /\ IPSDeUai(u)[1].ips[1] # Num(0)
    /\ ToLowerCase(IPSDeUai(u)[1].secteur) = "public"

\* C12: every school that gives a point to a regression or receives a
\* classification has a defined numeric index and the public sector, and a
\* loaded school without them is in neither: the schools handed to
\* calculateRegressions and analyserTout all have them, every regression
\* point is the (index, rate) pair of one of these schools, and every
\* analysis is about one of them.
C12_IndiceEtSecteurPublic ==
    /\ \A e \in Elements(ecolesWithIPS) :
           IndiceDefiniEtPublic(e.uai) /\ e.ips = IPSDeUai(e.uai)[1].ips[1]
    /\ \A c \in DOMAIN donneesRegression :
           \A p \in Elements(donneesRegression[c]) :
               \E e \in Elements(ecolesWithIPS) :
                   c \in DOMAIN e.resultats /\ p = <<e.ips, e.resultats[c]>>
    /\ \A a \in Elements(analyses) :
           \E e \in Elements(ecolesWithIPS) : e.uai = a.uai
    /\ \A e \in Elements(ecoles) :
           ~IndiceDefiniEtPublic(e.uai) =>
               /\ \A x \in Elements(ecolesWithIPS) : x.uai # e.uai
               /\ \A a \in Elements(analyses) : a.uai # e.uai

\* Analyses exist while, among the loaded schools, one has no index, or
\* one is private, or one is unknown to the IPS data.
C12_Witness ==
    /\ analyses # <<>>
    /\ DOMAIN regressions # {}
    /\ \E e \in Elements(ecoles) :
           \/ IPSDeUai(e.uai) = <<>>
           \/ IPSDeUai(e.uai)[1].ips = <<>>
           \/ IPSDeUai(e.uai)[1].secteur = "prive sous contrat"

----------------------------------------------------------------------------
(* The errors that end the run                                             *)

\* No school was extracted from the files.
AucuneEcoleExtraite == ecoles = <<>>

\* No extracted school has a usable index in the IPS data.
AucunIndiceUtilisable ==
    \A e \in Elements(ecoles) :
        ~(IPSDeUai(e.uai) # <<>> /\ IPSUtilisable(IPSDeUai(e.uai)[1].ips))

\* No classification was produced.
AucuneClassification == analyses = <<>>

NiveauxStrategiquesVides ==
    /\ ecolesClassees = <<>>
    /\ matrice = <<>>
    /\ cellulesAffichees = <<>>
    /\ ongletMatrice = <<>>
    /\ graphiques = <<>>
    /\ leviers = <<>>

\* C13: the run ends with an error exactly when no school was extracted, no
\* school has a usable index, or no classification was produced: an error
\* is one of the three throws of main and its condition holds, nothing of
\* the strategic levels or exports exists then, and a run that reaches the
\* strategic levels has none of the conditions (the failure of one file or
\* of one skill is not an error of the run).
C13_AbandonSelonTroisConditions ==
    /\ etape = "erreur" =>
           /\ erreur \in {"Aucune ecole trouvee dans ORACE", "Aucun IPS recupere",
                          "Aucune analyse generee"}
           /\ erreur = "Aucune ecole trouvee dans ORACE" => AucuneEcoleExtraite
           /\ erreur = "Aucun IPS recupere" =>
                  ~AucuneEcoleExtraite /\ AucunIndiceUtilisable
           /\ erreur = "Aucune analyse generee" =>
                  ~AucuneEcoleExtraite /\ ipsData # <<>> /\ AucuneClassification
           /\ NiveauxStrategiquesVides
    /\ etape \notin {"debut", "orace", "erreur"} => ~AucuneEcoleExtraite
    /\ etape \in {"matrice", "leviers", "excel", "termine"} =>
           /\ erreur = ""
           /\ ~AucunIndiceUtilisable
           /\ ~AucuneClassification
    /\ AucunIndiceUtilisable \/ AucuneClassification =>
           etape \notin {"matrice", "leviers", "excel", "termine"}

\* The run ended on the third throw although the IPS data were loaded: no
\* extracted school has an index; and the files had a layout failure.
C13_Witness ==
    /\ etape = "erreur"
    /\ erreur = "Aucune analyse generee"
    /\ ipsData # <<>>
    /\ AucunIndiceUtilisable
    /\ NomFichier(Configs[2]) \in DOMAIN fichiers
    /\ ~fichiers[NomFichier(Configs[2])].lisible

----------------------------------------------------------------------------
(* Files that cannot be read as a table                                    *)

\* The rows of a readable file pass validerIdentification, have a
\* group-label row, a value-kind row and at least one skill with a column.
EnTeteReconnu(lignes, niveau, matiere) ==
    /\ ValiderIdentification(lignes, niveau, matiere)
    /\ TrouverLigneGroupes(lignes) # <<>>
    /\ TrouverLignePourcentages(lignes, TrouverLigneGroupes(lignes)[1]) # <<>>
    /\ ExtraireCompetences(
           Ligne(lignes, 2),
           Ligne(lignes, TrouverLigneGroupes(lignes)[1]),
           Ligne(lignes, TrouverLignePourcentages(lignes,
                                  TrouverLigneGroupes(lignes)[1])[1])) # <<>>

\* The value-kind row of a recognised table, counted from 1.
RangeePourcentages(lignes) ==
    TrouverLignePourcentages(lignes, TrouverLigneGroupes(lignes)[1])[1] + 1

\* The skills of a recognised table.
CompetencesDe(lignes) ==
    ExtraireCompetences(Ligne(lignes, 2),
                        Ligne(lignes, TrouverLigneGroupes(lignes)[1]),
                        Ligne(lignes, RangeePourcentages(lignes) - 1))

\* The file of config k is missing, unreadable, or its header is not
\* recognised.
TableRejetee(k) ==
    \/ NomFichier(Configs[k]) \notin DOMAIN fichiers
    \/ ~fichiers[NomFichier(Configs[k])].lisible
    \/ ~EnTeteReconnu(fichiers[NomFichier(Configs[k])].lignes,
                      Configs[k].niveau, Configs[k].matiere)

\* The keys of a school that come from the file of config k.
ClesDeLaTable(e, k) ==
    {c \in DOMAIN e.resultats :
        c.niveau = Configs[k].niveau /\ c.matiere = Configs[k].matiere}

\* C14: chargerFichierCSV never lets an error out and gives an empty list
\* for a file that is missing, unreadable, without the expected signature
\* in its first row (in any case of letters), without group-label row,
\* without value-kind row or without any skill; loadEcoles still merges
\* the other files: no error ever leaves loadEcoles, and when it returns
\* no school holds a key of a rejected table, and every school row of a
\* recognised table that holds a rate for one of its skills is among the
\* schools with a key of that table.
C14_TableIllisibleIgnoree ==
    /\ erreur # "Erreur fatale"
    /\ etape = "orace" =>
           \A k \in 1..Len(Configs) :
               IF TableRejetee(k)
               THEN \A e \in Elements(ecoles) : ClesDeLaTable(e, k) = {}
               ELSE \E lignes \in {fichiers[NomFichier(Configs[k])].lignes} :
                        \A i \in 1..NbEcoles :
                            (\E l \in Elements(lignes) :
                                 /\ Cellule(l, 0) = UaiEcole(i)
                                 /\ DOMAIN ResultatsLigne(l, CompetencesDe(lignes),
                                        Configs[k].niveau, Configs[k].matiere) # {})
                                => \E e \in Elements(ecoles) :
                                       e.uai = UaiEcole(i) /\ ClesDeLaTable(e, k) # {}

\* loadEcoles has run on an unreadable CP francais file and a recognised
\* CP maths file, and gave schools.
C14_Witness ==
    /\ etape = "orace"
    /\ NomFichier(Configs[1]) \in DOMAIN fichiers
    /\ ~fichiers[NomFichier(Configs[1])].lisible
    /\ ~TableRejetee(2)
    /\ ecoles # <<>>

----------------------------------------------------------------------------
(* The merge of the extracted schools                                      *)

\* Every school chargerFichierCSV extracted, in the order of the configs
\* and of the rows.
EcolesExtraites ==
    Concat([k \in 1..Len(Configs) |-> Extractions(fichiers)[k].ecoles])

\* The positions of the extractions of school code u that hold key c.
ExtractionsDe(extraites, u, c) ==
    {i \in 1..Len(extraites) :
        extraites[i].uai = u /\ c \in DOMAIN extraites[i].resultats}

\* The merged schools are those of the extractions: one record per code,
\* whose keys are all the keys extracted for the code, each with the value
\* of its last extraction.
FusionAttendue(extraites, fusion) ==
    /\ \A i, j \in 1..Len(fusion) : fusion[i].uai = fusion[j].uai => i = j
    /\ {fusion[i].uai : i \in 1..Len(fusion)}
           = {extraites[i].uai : i \in 1..Len(extraites)}
    /\ \A e \in Elements(fusion) :
           /\ DOMAIN e.resultats
                  = UNION {DOMAIN x.resultats :
                              x \in {y \in Elements(extraites) : y.uai = e.uai}}
           /\ \A c \in DOMAIN e.resultats :
                  \E i \in ExtractionsDe(extraites, e.uai, c) :
                      /\ \A j \in ExtractionsDe(extraites, e.uai, c) : j <= i
                      /\ e.resultats[c] = extraites[i].resultats[c]

\* C15: when loadEcoles returns there is exactly one school per school
\* code, its results hold exactly the keys extracted for that code from
\* all files and rows, and a key extracted more than once has the value of
\* its latest extraction.
C15_FusionParUai ==
    etape = "orace" => FusionAttendue(EcolesExtraites, ecoles)

\* School 1 was extracted from two rows of the CP francais file with
\* different rates and from the CP maths file: the merged school holds the
\* rate of the later row and the keys of both files.
C15_Witness ==
    /\ etape = "orace"
    /\ \E e \in Elements(ecoles) :
           /\ e.uai = UaiEcole(1)
           /\ CleMathsA \in DOMAIN e.resultats
           /\ CleFrancais \in DOMAIN e.resultats
           /\ e.resultats[CleFrancais] = Num(58)
    /\ \E i, j \in ExtractionsDe(EcolesExtraites, UaiEcole(1), CleFrancais) :
           /\ i < j
           /\ EcolesExtraites[i].resultats[CleFrancais] = Num(43)

----------------------------------------------------------------------------
(* The order of the per-school ranking                                     *)

\* The priority genererMatricePriorisation gave to the school of code u.
PrioriteDUai(u) ==
    (CHOOSE e \in Elements(ecolesClassees) : e.uai = u).priorite

\* Line a may stand before line b in a ranking by priority (most urgent
\* first), then number of skills in vigilance, then number of levers (most
\* first).
AvantDansClassement(a, b) ==
    \/ PrioriteDUai(a.uai) < PrioriteDUai(b.uai)
    \/ /\ PrioriteDUai(a.uai) = PrioriteDUai(b.uai)
       /\ \/ a.nb_vigilance > b.nb_vigilance
          \/ /\ a.nb_vigilance = b.nb_vigilance
             /\ a.nb_leviers >= b.nb_leviers

\* C16: the per-school ranking is sorted by priority, then by number of
\* skills in vigilance, then by number of levers; schools with the same
\* pair of subject profiles have the same priority.
C16_ClassementParPriorite ==
    MatriceFaite =>
        /\ \A i, j \in 1..Len(syntheseEcoles) :
               i < j => AvantDansClassement(syntheseEcoles[i], syntheseEcoles[j])
        /\ \A e, f \in Elements(ecolesClassees) :
               e.profil_croise = f.profil_croise => e.priorite = f.priorite

\* A ranking in which a school of priority 2 stands before a school of
\* priority 1: both have the same number of skills in vigilance and the
\* first has more levers.
C16_CasObserve ==
    /\ MatriceFaite
    /\ \E i, j \in 1..Len(syntheseEcoles) :
           /\ i < j
           /\ PrioriteDUai(syntheseEcoles[i].uai) = 2
           /\ PrioriteDUai(syntheseEcoles[j].uai) = 1
           /\ syntheseEcoles[i].nb_vigilance = syntheseEcoles[j].nb_vigilance
           /\ syntheseEcoles[i].nb_leviers > syntheseEcoles[j].nb_leviers

----------------------------------------------------------------------------
(* The lever portfolio                                                     *)

PortefeuilleFait == etape \in {"leviers", "excel", "termine"}

\* At least 30 % of the classified skills of the line are levers.
PartLeviersSuffisante(s) == 10 * s.nb_leviers >= 3 * s.nb_total

\* The lines of the synthesis that qualify.
EcolesLeviers == {s \in Elements(syntheseEcoles) : PartLeviersSuffisante(s)}

DansPortefeuille(u) == \E l \in Elements(leviers) : l.uai = u

\* C17: a school is in the lever portfolio if and only if at least 30 % of
\* its classified skills are levers.
C17_PortefeuilleSelonPartLeviers ==
    PortefeuilleFait =>
        \A s \in Elements(syntheseEcoles) :
            DansPortefeuille(s.uai) <=> PartLeviersSuffisante(s)

\* Twelve schools have a third of their skills as levers and the portfolio
\* holds ten of them.
C17_CasObserve ==
    /\ PortefeuilleFait
    /\ Cardinality(EcolesLeviers) = 12
    /\ Len(leviers) = 10
    /\ \E s \in EcolesLeviers : ~DansPortefeuille(s.uai)

----------------------------------------------------------------------------
(* One classification per school and skill with a Regression               *)

AnalysesFaites == etape \notin {"debut", "orace", "ips", "fusion", "regressions", "erreur"}

\* The positions of the classifications of school code u for skill c.
AnalysesDe(u, c) ==
    {i \in 1..Len(analyses) :
        analyses[i].uai = u /\ analyses[i].competence_complete = c}

\* C18: analyserTout returns exactly one classification for every school
\* and skill such that the school has a result for the skill and the skill
\* has a Regression, and none for any other school and skill.
C18_UneAnalyseParResultatAvecRegression ==
    AnalysesFaites =>
        \A e \in Elements(ecolesWithIPS), c \in ToutesCles :
            Cardinality(AnalysesDe(e.uai, c))
                = IF c \in DOMAIN e.resultats /\ c \in DOMAIN regressions
                  THEN 1 ELSE 0

\* A run in which every school has the same IPS: the francais skill has a
\* Regression fitted on five points, whose slope and intercept are not
\* numbers, and no school is classified for it.
C18_CasObserve ==
    /\ AnalysesFaites
    /\ CleFrancais \in DOMAIN regressions
    /\ regressions[CleFrancais].n = 5
    /\ IsNaN(regressions[CleFrancais].a)
    /\ \A e \in Elements(ecolesWithIPS) :
           /\ CleFrancais \in DOMAIN e.resultats
           /\ AnalysesDe(e.uai, CleFrancais) = {}

----------------------------------------------------------------------------
(* The pupil counts of a classification                                    *)

\* C19: every classification carries the counts (besoins, fragiles,
\* satisfaisant) of its school and skill in the source table, which are the
\* counts aggregerDonneesParEcole reads from it.
C19_EffectifsDansChaqueAnalyse ==
    AnalysesFaites =>
        \A a \in Elements(analyses) :
            /\ "effectifs" \in DOMAIN a
            /\ EffectifsAnalyse(a) = effectifsSource[a.uai][a.competence_complete]

\* A classification of school 3 for a maths skill with 23, 20 and 57 pupils
\* in the source table: the entry has no counts and the aggregation reads
\* no pupil.
C19_CasObserve ==
    /\ AnalysesFaites
    /\ \E a \in Elements(analyses) :
           /\ a.uai = 3
           /\ a.competence_complete = CleMathsA
           /\ effectifsSource[3][CleMathsA] = Eff(23, 20, 57)
           /\ "effectifs" \notin DOMAIN a
           /\ EffectifsAnalyse(a) = AucunEleve

----------------------------------------------------------------------------
(* The references do not drive the classification                          *)

\* Other states of ReferencesService.references: no reference file read,
\* and a CP francais sheet with other values.
AutresReferences ==
    {<<>>,
     <<"CP", "francais">> :>
         ("Lire_des_mots" :> [france |-> Num(70), academie |-> Num(40)])}

ChampsDeReference == {"ref_france", "ref_academie", "ecart_vs_france", "ecart_vs_academie"}

\* The gap of an analysis to a reference value: empty without a value.
EcartReference(reel, valeur) ==
    IF valeur = <<>> THEN <<>> ELSE <<RSub(reel, valeur[1])>>

\* Analysis b is analysis a but for the comparison with the references.
MemeClassification(a, b) ==
    /\ DOMAIN a = DOMAIN b
    /\ \A champ \in DOMAIN a \ ChampsDeReference : a[champ] = b[champ]

\* C20: with the same schools and the same regressions, the analyses under
\* other reference values, or without references, are the same analyses but
\* for the reference fields: same school, skill, category, expected rate
\* and gap; the reference gaps are the rate minus the reference value.
C20_CategorieIndependanteDesReferences ==
    etape = "analyses" =>
        \A refs \in AutresReferences :
            \E autres \in {AnalyserTout(regressions, refs, ecolesWithIPS)} :
                /\ Len(autres) = Len(analyses)
                /\ \A i \in 1..Len(analyses) :
                       /\ MemeClassification(analyses[i], autres[i])
                       /\ autres[i].ecart_vs_france
                              = EcartReference(autres[i].resultat_reel, autres[i].ref_france)
                       /\ analyses[i].ecart_vs_france
                              = EcartReference(analyses[i].resultat_reel, analyses[i].ref_france)

\* A francais skill classified LEVIER, 8 points above the national
\* reference of the run, which would be 12 points under another reference
\* value and has no reference gap without references.
C20_Witness ==
    /\ etape = "analyses"
    /\ \E i \in 1..Len(analyses) :
           /\ analyses[i].competence_complete = CleFrancais
           /\ analyses[i].categorie_code = "LEVIER"
           /\ analyses[i].ecart_vs_france = <<Num(8)>>
           /\ \E refs \in AutresReferences :
                  AnalyserTout(regressions, refs, ecolesWithIPS)[i].ecart_vs_france
                      = <<Num(-12)>>
           /\ AnalyserTout(regressions, <<>>, ecolesWithIPS)[i].ecart_vs_france = <<>>

----------------------------------------------------------------------------
(* The header rows of a source table                                       *)

\* The rows of the CP francais file of the run, <<>> when it was not read.
LignesFrancais ==
    IF NomFichier(Configs[1]) \in DOMAIN fichiers
    THEN fichiers[NomFichier(Configs[1])].lignes ELSE <<>>

\* Row r of the table, counted from 1, has a cell whose text holds one of
\* the words, in any case of letters.
RangeeAvec(lignes, r, mots) ==
    /\ r <= Len(lignes)
    /\ \E k \in 1..Len(lignes[r]) :
           \E m \in mots : Includes(ToLowerCase(lignes[r][k]), m)

\* The rows 3 through 10 that hold the satisfactory group name.
RangeesGroupes(lignes) == {r \in 3..10 : RangeeAvec(lignes, r, {"satisfaisant"})}

\* Some school of loadEcoles has a key of the CP francais table.
FrancaisExtrait == \E e \in Elements(ecoles) : ClesDeLaTable(e, 1) # {}

\* C21: the group-label row found is the first of the rows 3 through 10
\* that has a cell holding the satisfactory group name, in any case of
\* letters; when none of these rows has one, also when a row below row 10
\* has one, the table gives no result.
C21_LigneGroupesDansLaFenetre ==
    etape = "orace" =>
        /\ TrouverLigneGroupes(LignesFrancais)
               = IF RangeesGroupes(LignesFrancais) = {} THEN <<>>
                 ELSE <<Premier(RangeesGroupes(LignesFrancais))[1] - 1>>
        /\ RangeesGroupes(LignesFrancais) = {} => ~FrancaisExtrait

\* loadEcoles has read a CP francais table whose group-label row is row
\* 10, the last of the window, and extracted its schools.
C21_Witness ==
    /\ etape = "orace"
    /\ RangeesGroupes(LignesFrancais) = {10}
    /\ TrouverLigneGroupes(LignesFrancais) = <<9>>
    /\ FrancaisExtrait

\* The group-label row of the CP francais table, counted from 1.
RangeeGroupes == Premier(RangeesGroupes(LignesFrancais))[1]

\* The rows among the three below row rg that hold a percentage marker or
\* a respondent-count marker.
RangeesPourcentages(lignes, rg) ==
    {r \in (rg + 1)..(rg + 3) : RangeeAvec(lignes, r, MarqueursPourcentage)}

\* C22: the value-kind row found is the first of the three rows below the
\* group-label row that has a cell holding a percentage marker or a
\* respondent-count marker; it is below the group-label row, by three rows
\* at most; when none of the three rows has one the table gives no result.
C22_LignePourcentagesSousLesGroupes ==
    (etape = "orace" /\ RangeesGroupes(LignesFrancais) # {}) =>
        \E trouvee \in {TrouverLignePourcentages(LignesFrancais, RangeeGroupes - 1)} :
            /\ trouvee
                 = IF RangeesPourcentages(LignesFrancais, RangeeGroupes) = {} THEN <<>>
                   ELSE <<Premier(RangeesPourcentages(LignesFrancais, RangeeGroupes))[1] - 1>>
            /\ trouvee # <<>> =>
                   /\ trouvee[1] + 1 > RangeeGroupes
                   /\ trouvee[1] + 1 <= RangeeGroupes + 3
            /\ trouvee = <<>> => ~FrancaisExtrait

\* loadEcoles has read a CP francais table whose value-kind row is three
\* rows below the group-label row, and extracted its schools.
C22_Witness ==
    /\ etape = "orace"
    /\ RangeesGroupes(LignesFrancais) # {}
    /\ TrouverLignePourcentages(LignesFrancais, RangeeGroupes - 1) = <<RangeeGroupes + 2>>
    /\ FrancaisExtrait

----------------------------------------------------------------------------
(* The skill blocks and their data columns                                 *)

\* The rows of the CP maths file of the run, <<>> when it was not read.
LignesMaths ==
    IF NomFichier(Configs[2]) \in DOMAIN fichiers
    THEN fichiers[NomFichier(Configs[2])].lignes ELSE <<>>

\* The skill row, the group-label row and the value-kind row of the CP
\* maths table were found (rows 3, 4 and 5).
EnTeteMathsTrouve ==
    /\ ValiderIdentification(LignesMaths, "CP", "maths")
    /\ RangeesGroupes(LignesMaths) = {4}
    /\ 5 \in RangeesPourcentages(LignesMaths, 4)

\* The text of column col (counted from 0) of a row, lower-cased.
Texte(ligne, col) == ToLowerCase(Trim(Cellule(ligne, col)))

\* The columns of the skill row that start a skill block: a text of 10
\* characters or more that is not a meta-label.
DebutsDeBloc(ligne3) ==
    {col \in 0..(Len(ligne3) - 1) :
        /\ Len(Texte(ligne3, col)) >= 10
        /\ ~Includes(Texte(ligne3, col), "competence")
        /\ ~Includes(Texte(ligne3, col), "exercice")}

\* The last column of the block that starts at column debut.
FinDeBloc(ligne3, debut) ==
    IF \E d \in DebutsDeBloc(ligne3) : d > debut
    THEN Premier({d \in DebutsDeBloc(ligne3) : d > debut})[1] - 1
    ELSE Len(ligne3) - 1

\* The first column of the block that holds the satisfactory group label.
ColonneGroupe(lignes, debut) ==
    Premier({col \in debut..FinDeBloc(lignes[3], debut) :
                Includes(Texte(lignes[4], col), "satisfaisant")})

\* The data column of a block whose group column is g: the first marker
\* column among g and the three columns to its right, up to column limite;
\* the column to the right of g when there is none.
ColonneDeDonnees(lignes, g, limite) ==
    LET marqueurs == {col \in g..Min(g + 3, limite) :
                         \E m \in MarqueursPourcentage :
                             Includes(Texte(lignes[5], col), m)}
    IN  IF marqueurs = {} THEN g + 1 ELSE Premier(marqueurs)[1]

\* The blocks with a satisfactory group column, by their first column.
BlocsResolus(lignes) ==
    {d \in DebutsDeBloc(lignes[3]) : ColonneGroupe(lignes, d) # <<>>}

\* The skills as the claim resolves them: the blocks with a group column,
\* in column order, each with its name and its data column; the search of
\* the marker stops at the end of the block when dansLeBloc.
CompetencesAttendues(lignes, dansLeBloc) ==
    LET colonne(d) ==
            ColonneDeDonnees(lignes, ColonneGroupe(lignes, d)[1],
                IF dansLeBloc THEN FinDeBloc(lignes[3], d)
                ELSE ColonneGroupe(lignes, d)[1] + 3)
        rang(d) == Cardinality({x \in BlocsResolus(lignes) : x <= d})
    IN  [k \in 1..Cardinality(BlocsResolus(lignes)) |->
            LET d == CHOOSE x \in BlocsResolus(lignes) : rang(x) = k
            IN  [nom |-> Trim(Cellule(lignes[3], d)), colonne |-> colonne(d)]]

\* The skills extraireCompetences resolves in the CP maths table.
CompetencesMaths ==
    ExtraireCompetences(LignesMaths[3], LignesMaths[4], LignesMaths[5])

\* The rate read for skill k in row i of the CP maths table: the number in
\* the cell of the data column, <<>> for a cell that holds no number.
TauxLu(i, competences, k) ==
    ParsePourcentage(ValeurNum(Cellule(LignesMaths[i], competences[k].colonne)))

\* The schools of the CP maths table hold, for each skill name, the rate
\* read for the last skill of that name that has one in their row, and
\* nothing for a name without any rate in their row.
TauxDesColonnes(competences) ==
    \A i \in 6..Len(LignesMaths), k \in 1..Len(competences) :
        \A e \in Elements(ecoles) :
            e.uai = Trim(Cellule(LignesMaths[i], 0)) =>
                LET cle == Cle("CP", "maths", NormaliserNomCompetence(competences[k].nom))
                    memeNom == {j \in 1..Len(competences) :
                                   competences[j].nom = competences[k].nom}
                IN  IF \A j \in memeNom : TauxLu(i, competences, j) = <<>>
                    THEN cle \notin DOMAIN e.resultats
                    ELSE (/\ TauxLu(i, competences, k) # <<>>
                          /\ \A j \in memeNom : j > k => TauxLu(i, competences, j) = <<>>)
                         => (/\ cle \in DOMAIN e.resultats
                             /\ e.resultats[cle] = TauxLu(i, competences, k)[1])

\* C23 as stated: the marker is looked for up to three columns to the
\* right of the group column, whatever the end of the block.
C23_ColonneJusquaTroisADroite ==
    (etape = "orace" /\ EnTeteMathsTrouve) =>
        /\ CompetencesMaths = CompetencesAttendues(LignesMaths, FALSE)
        /\ TauxDesColonnes(CompetencesAttendues(LignesMaths, FALSE))

\* C23: a skill block runs from a skill-name cell (10 characters or more,
\* not a meta-label) to the column before the next one or the end of the
\* row; a block without satisfactory group column gives no skill; else the
\* data column is the first marker column among the group column and the
\* three to its right that lie inside the block, and the column to the
\* right of the group column when there is none; the schools hold the
\* rates of these columns.
C23_ColonneDansLeBloc ==
    (etape = "orace" /\ EnTeteMathsTrouve) =>
        /\ CompetencesMaths = CompetencesAttendues(LignesMaths, TRUE)
        /\ TauxDesColonnes(CompetencesAttendues(LignesMaths, TRUE))

\* A CP maths table with a block of two columns without marker and a
\* marker in the first column after the block: the skill is read in the
\* column to the right of its group column, and school 1 holds that cell.
C23_Witness ==
    /\ etape = "orace"
    /\ EnTeteMathsTrouve
    /\ DebutsDeBloc(LignesMaths[3]) = {2, 4}
    /\ ColonneGroupe(LignesMaths, 2) = <<2>>
    /\ Texte(LignesMaths[5], 4) = "nb" /\ Texte(LignesMaths[5], 5) = "%"
    /\ CompetencesMaths[1] = [nom |-> "Ecrire des nombres", colonne |-> 3]
    /\ \E e \in Elements(ecoles) :
           e.uai = UaiEcole(1) /\ e.resultats[CleMathsA] = Num(13)

----------------------------------------------------------------------------
(* The school rows of a source table                                       *)

\* A row has the shape of a school row: its first two cells are not
\* empty, its first cell names neither a code column nor a total, and has
\* at least 7 characters.
LigneDEcole(ligne) ==
    /\ Trim(Cellule(ligne, 0)) # ""
    /\ Trim(Cellule(ligne, 1)) # ""
    /\ ~Includes(ToLowerCase(Trim(Cellule(ligne, 0))), "uai")
    /\ ~Includes(ToLowerCase(Trim(Cellule(ligne, 0))), "total")
    /\ Len(Trim(Cellule(ligne, 0))) >= 7

\* The rows below the value-kind row that have the shape of a school row.
RangeesDEcole(lignes) ==
    {r \in (RangeePourcentages(lignes) + 1)..Len(lignes) : LigneDEcole(lignes[r])}

\* The codes of the rows from row debut on that have a code, are not a
\* total row and hold a rate for some skill.
CodesDepuis(lignes, debut, competences) ==
    {Trim(Cellule(lignes[r], 0)) :
        r \in {q \in debut..Len(lignes) :
                 /\ Trim(Cellule(lignes[q], 0)) # ""
                 /\ ~Includes(ToLowerCase(Trim(Cellule(lignes[q], 0))), "total")
                 /\ DOMAIN ResultatsLigne(lignes[q], competences, "CP", "francais") # {}}}

\* The codes of the schools of loadEcoles that have a key of the CP
\* francais table.
CodesFrancais == {e.uai : e \in {x \in Elements(ecoles) : ClesDeLaTable(x, 1) # {}}}

\* C24: the schools of a recognised table are those of the rows from the
\* first row below the value-kind row that has the shape of a school row
\* (two first cells not empty, first cell neither a code-column header nor
\* a total, at least 7 characters); no row before it gives a school, so no
\* row at all when no row has that shape; from it on a total row is
\* skipped alone and the rows that follow it are still extracted.
C24_ExtractionDepuisPremiereEcole ==
    (etape = "orace" /\ ~TableRejetee(1)) =>
        \E lignes \in {LignesFrancais} :
            /\ CodesFrancais
                 = IF RangeesDEcole(lignes) = {} THEN {}
                   ELSE CodesDepuis(lignes, Premier(RangeesDEcole(lignes))[1],
                                    CompetencesDe(lignes))
            /\ \A u \in CodesFrancais : ~Includes(ToLowerCase(u), "total")

\* loadEcoles has read a CP francais table none of whose rows has the
\* shape of a school row, and a school comes from its eleventh row.
C24_CasObserve ==
    /\ etape = "orace"
    /\ ~TableRejetee(1)
    /\ RangeesDEcole(LignesFrancais) = {}
    /\ Len(LignesFrancais) >= 11
    /\ Trim(Cellule(LignesFrancais[11], 0)) \in CodesFrancais

----------------------------------------------------------------------------
(* The percentage cells                                                    *)

\* The text without its trailing "%" and the spaces around.
SansPourcent(cellule) ==
    LET t == Trim(cellule)
    IN  IF Len(t) > 0 /\ Car(t, Len(t)) = "%" THEN Trim(SubSeq(t, 1, Len(t) - 1))
        ELSE t

\* The number of decimals of a text made of digits, or of digits, a
\* decimal comma or point and digits; -1 for any other text.
NbDecimales(t) ==
    LET n1 == NbChiffres(t, 1)
        n2 == NbChiffres(t, n1 + 2)
    IN  IF n1 = 0 THEN -1
        ELSE IF n1 = Len(t) THEN 0
        ELSE IF Car(t, n1 + 1) \in {",", "."} /\ n2 > 0 /\ n1 + 1 + n2 = Len(t) THEN n2
        ELSE -1

\* The cell is a number, possibly followed by "%".
EstNombre(cellule) == NbDecimales(SansPourcent(cellule)) >= 0

\* The number written in a numeric cell.
NombreEcrit(cellule) ==
    LET t == SansPourcent(cellule)
        n2 == NbDecimales(t)
        n1 == IF n2 = 0 THEN Len(t) ELSE Len(t) - n2 - 1
    IN  Rat(Entier(SubSeq(t, 1, n1)) * Puissance10(n2)
                + Entier(SubSeq(t, Len(t) - n2 + 1, Len(t))),
            Puissance10(n2))

\* What a cell is to record: nothing when it is empty or not a number, the
\* number times 100 when it lies strictly between 0 and 1, else the number.
TauxAttendu(cellule) ==
    IF ~EstNombre(cellule) THEN <<>>
    ELSE IF RGt(NombreEcrit(cellule), Num(0)) /\ RLt(NombreEcrit(cellule), Num(1))
         THEN <<RMul(NombreEcrit(cellule), Num(100))>>
    ELSE <<NombreEcrit(cellule)>>

\* What loadEcoles recorded for the CP francais skill of the school of
\* code u: <<>> when the school or the key is absent.
TauxFrancais(u) ==
    LET avec == {e \in Elements(ecoles) : e.uai = u /\ ClesDeLaTable(e, 1) # {}}
    IN  IF avec = {} THEN <<>>
        ELSE LET e == CHOOSE x \in avec : TRUE
             IN  <<e.resultats[CHOOSE c \in ClesDeLaTable(e, 1) : TRUE]>>

\* The rows from the first school row on that have a code of their own
\* and are not a total row.
RangeesLues(lignes) ==
    IF RangeesDEcole(lignes) = {} THEN {}
    ELSE {r \in Premier(RangeesDEcole(lignes))[1]..Len(lignes) :
             /\ Trim(Cellule(lignes[r], 0)) # ""
             /\ ~Includes(ToLowerCase(Trim(Cellule(lignes[r], 0))), "total")
             /\ \A q \in 1..Len(lignes) :
                    Trim(Cellule(lignes[q], 0)) = Trim(Cellule(lignes[r], 0)) => q = r}

\* C25: a cell holding a number v, written with a decimal comma or point
\* and possibly followed by "%", is recorded as v x 100 when 0 < v < 1 and
\* as v otherwise; an empty cell and a cell that is not a number record
\* nothing for the skill.
C25_TauxSelonLaCellule ==
    (etape = "orace" /\ ~TableRejetee(1)) =>
        \E lignes \in {LignesFrancais} :
            \E competences \in {CompetencesDe(lignes)} :
                Len(competences) = 1 =>
                    \A r \in RangeesLues(lignes) :
                        TauxFrancais(Trim(Cellule(lignes[r], 0)))
                            = TauxAttendu(Cellule(lignes[r], competences[1].colonne))

\* loadEcoles has recorded 12 for a cell that holds a number followed by
\* a word, next to a fraction recorded as a percentage.
C25_CasObserve ==
    /\ etape = "orace"
    /\ ~TableRejetee(1)
    /\ \E r \in RangeesLues(LignesFrancais) :
           /\ Cellule(LignesFrancais[r], 2) = "12 eleves"
           /\ TauxFrancais(Trim(Cellule(LignesFrancais[r], 0))) = <<Num(12)>>
    /\ \E r \in RangeesLues(LignesFrancais) :
           /\ Cellule(LignesFrancais[r], 2) = "0,57"
           /\ TauxFrancais(Trim(Cellule(LignesFrancais[r], 0))) = <<Num(57)>>

----------------------------------------------------------------------------
(* The regression table after several calls                                *)

\* The skills with at least MinPoints valid points in the schools.
ClesAvecAssezDePoints(liste) ==
    {c \in ToutesCles :
        Len(SelectSeq(PointsCompetence(liste, c), PointValide)) >= MinPoints}

\* C26: after any sequence of calls of calculateRegressions on one
\* service, the table has an entry exactly for the skills with at least 4
\* valid points in the schools of the latest call, and each entry is the
\* fit of the points of that call.
C26_TableDuDernierAppel ==
    etape = "regressions" =>
        /\ DOMAIN regressions = ClesAvecAssezDePoints(ecolesWithIPS)
        /\ \A c \in DOMAIN regressions :
               \E points \in {SelectSeq(PointsCompetence(ecolesWithIPS, c), PointValide)} :
                   /\ regressions[c].n = Len(points)
                   /\ regressions[c].a = LinearRegression(points).m
                   /\ regressions[c].b = LinearRegression(points).b

\* After a second call the table still has the entry of a skill that has
\* three points in the schools of that call.
C26_CasObserve ==
    /\ etape = "regressions"
    /\ \E c \in DOMAIN regressions :
           /\ c \notin ClesAvecAssezDePoints(ecolesWithIPS)
           /\ Len(PointsCompetence(ecolesWithIPS, c)) = 3
           /\ regressions[c].n > 3

----------------------------------------------------------------------------
(* The data column and the span of its block                               *)

\* The first column of the k-th block with a satisfactory group column.
DebutDuBloc(lignes, k) ==
    CHOOSE d \in BlocsResolus(lignes) :
        Cardinality({x \in BlocsResolus(lignes) : x <= d}) = k

\* C27: the data column of every skill resolved in a table lies between
\* the first and the last column of the block of the skill, so no two
\* skills of the table are read in the same column.
C27_ColonneDansSonBloc ==
    (etape = "orace" /\ EnTeteMathsTrouve) =>
        \E competences \in {CompetencesMaths} :
            /\ Len(competences) = Cardinality(BlocsResolus(LignesMaths))
            /\ \A k \in 1..Len(competences) :
                   /\ competences[k].colonne >= DebutDuBloc(LignesMaths, k)
                   /\ competences[k].colonne
                          <= FinDeBloc(LignesMaths[3], DebutDuBloc(LignesMaths, k))
            /\ \A j, k \in 1..Len(competences) :
                   competences[j].colonne = competences[k].colonne => j = k

\* A CP maths table whose first block is one column wide, without marker:
\* its skill is read in the first column of the next block, the column of
\* the second skill, and school 1 holds the rate of that column for both.
C27_CasObserve ==
    /\ etape = "orace"
    /\ EnTeteMathsTrouve
    /\ DebutsDeBloc(LignesMaths[3]) = {2, 3}
    /\ Len(CompetencesMaths) = 2
    /\ CompetencesMaths[1].colonne = 3
    /\ CompetencesMaths[2].colonne = 3
    /\ \E e \in Elements(ecoles) :
           /\ e.uai = UaiEcole(1)
           /\ e.resultats[CleMathsA] = Num(57)
           /\ e.resultats[CleMathsB] = Num(57)

----------------------------------------------------------------------------
(* The first row handed to extraireEcoles                                  *)

\* C28: for a table whose header rows were found, the index of the first
\* school row is greater than the index of the value-kind row, and every
\* school of the table comes from a row below the value-kind row.
C28_PremiereEcoleSousLesPourcentages ==
    (etape = "orace" /\ ~TableRejetee(1)) =>
        \E lignes \in {LignesFrancais} :
            \E rp \in {RangeePourcentages(lignes)} :
                /\ TrouverPremiereEcole(lignes, rp - 1) > rp - 1
                /\ \A u \in CodesFrancais :
                       \E r \in (rp + 1)..Len(lignes) : Trim(Cellule(lignes[r], 0)) = u

\* A CP francais table whose value-kind row is row 11 and that has no row
\* with the shape of a school row: the first row handed to extraireEcoles
\* is row 11 itself, and a school comes from it.
C28_CasObserve ==
    /\ etape = "orace"
    /\ ~TableRejetee(1)
    /\ RangeePourcentages(LignesFrancais) = 11
    /\ TrouverPremiereEcole(LignesFrancais, 10) = 10
    /\ \E e \in Elements(ecoles) :
           /\ e.uai = Trim(Cellule(LignesFrancais[11], 0))
           /\ e.nom = Trim(Cellule(LignesFrancais[11], 1))
           /\ e.resultats[CleFrancais] = Num(50)

----------------------------------------------------------------------------
(* The category and the values reported with it                            *)

\* C29: in every classification the category agrees with the reported
\* values: it is LEVIER exactly when the reported ecart_vs_ips is above 7
\* and VIGILANCE exactly when it is below -7, and the reported
\* ecart_vs_ips is the reported resultat_reel minus the reported
\* resultat_attendu_ips.
C29_CategorieSelonValeursRapportees ==
    AnalysesFaites =>
        \A a \in Elements(analyses) :
            /\ (a.categorie_code = "LEVIER") = RGt(a.ecart_vs_ips, Num(7))
            /\ (a.categorie_code = "VIGILANCE") = RLt(a.ecart_vs_ips, Num(-7))
            /\ a.ecart_vs_ips = RSub(a.resultat_reel, a.resultat_attendu_ips)

\* A classification LEVIER whose reported gap is 7 while the reported
\* rate minus the reported expected rate is 7.1, and a classification
\* VIGILANCE whose reported gap is -7.
C29_CasObserve ==
    /\ AnalysesFaites
    /\ \E a \in Elements(analyses) :
           /\ a.categorie_code = "LEVIER"
           /\ a.ecart_vs_ips = Num(7)
           /\ a.resultat_reel = Rat(571, 10)
           /\ a.resultat_attendu_ips = Num(50)
    /\ \E a \in Elements(analyses) :
           /\ a.categorie_code = "VIGILANCE"
           /\ a.ecart_vs_ips = Num(-7)

----------------------------------------------------------------------------
(* The nine cells of the matrix                                            *)

\* The codes of the schools that have a classification.
UaisAnalyses == {a.uai : a \in Elements(analyses)}

\* The profile of the school of code u in francais or in maths, from the
\* counts of its classifications in that subject.
ProfilDe(u, enFrancais) ==
    LET nb(code) ==
            Cardinality({i \in 1..Len(analyses) :
                /\ analyses[i].uai = u
                /\ (analyses[i].matiere = "Francais") = enFrancais
                /\ analyses[i].categorie_code = code})
    IN  DeterminerProfilMatiere(
            [leviers |-> nb("LEVIER"), conformes |-> nb("CONFORME"),
             vigilance |-> nb("VIGILANCE")])

\* The places of the matrix, cell and position, that hold the school of
\* code u.
PlacesDe(u) ==
    {<<cle, i>> \in (DOMAIN matrice) \X (1..Len(ecolesClassees)) :
        i <= Len(matrice[cle]) /\ matrice[cle][i].uai = u}

RECURSIVE SommeTailles(_)
SommeTailles(cles) ==
    IF cles = {} THEN 0
    ELSE LET cle == CHOOSE x \in cles : TRUE
         IN  Len(matrice[cle]) + SommeTailles(cles \ {cle})

\* C30: every school with a classification is in exactly one of the nine
\* cells of the matrix, the cell of its maths profile and its francais
\* profile; the sizes of the cells add up to the number of schools of the
\* analyses, which is the number of lines of the synthesis; the priority
\* of each school is the priority shown for its cell.
C30_UneCelluleParEcole ==
    MatriceFaite =>
        /\ Cardinality(DOMAIN matrice) = 9
        /\ \A u \in UaisAnalyses :
               \A place \in PlacesDe(u) :
                   place[1] = CleProfil(ProfilDe(u, FALSE), ProfilDe(u, TRUE))
        /\ \A u \in UaisAnalyses : Cardinality(PlacesDe(u)) = 1
        /\ SommeTailles(DOMAIN matrice) = Cardinality(UaisAnalyses)
        /\ Cardinality(UaisAnalyses) = Len(syntheseEcoles)
        /\ \A cle \in DOMAIN matrice :
               \A i \in 1..Len(matrice[cle]) :
                   \E k \in 1..Len(cellulesAffichees) :
                       /\ cellulesAffichees[k].cle = cle
                       /\ cellulesAffichees[k].priorite
                              = "P" \o ToString(matrice[cle][i].priorite)

\* A matrix with schools in four cells, two of them in the same cell, one
\* with a maths profile V and a francais profile L.
C30_Witness ==
    /\ MatriceFaite
    /\ Cardinality(UaisAnalyses) = NbEcoles
    /\ Len(matrice["V,L"]) = 1
    /\ Len(matrice["L,V"]) = 1
    /\ Len(matrice["C,V"]) = 1
    /\ Len(matrice["C,C"]) = 2

====
